---- MODULE Spec2Model ----
(***************************************************************************)
(* A model of one round of Snooze: GameScene with the NoiseMeter, the Bear,*)
(* the Television, the PowerUpManager and the NoiseSourceManager.          *)
(*                                                                         *)
(* Numbers.  The meter level, the bear's noise and every noise amount are  *)
(* JavaScript numbers in the source.  Here they are exact fixed-point      *)
(* integers counting 1/UNIT of a meter unit; multipliers are integers      *)
(* counting hundredths (1.3 is 130).  Frame deltas are multiples of        *)
(* DeltaStep milliseconds, which makes every amount an integer.  Floating  *)
(* point rounding is outside the model.                                    *)
(*                                                                         *)
(* Scheduling.  Phaser is the environment: it may call any callback that   *)
(* is registered or pending (frame update, countdown tick, TV timers and   *)
(* tweens, input signals, spawn and creation timers) at any moment.  The   *)
(* handlers' own guards are modelled; each action is one whole callback,   *)
(* with every event it emits dispatched synchronously to the subscribers   *)
(* in subscription order, as EventBus.emit does.                           *)
(***************************************************************************)
EXTENDS Integers, Sequences, FiniteSets, TLC

\* ---------------------------------------------------------------------------
\* Program constants (src/src/utils/Constants.ts, GAMEPLAY)
\* ---------------------------------------------------------------------------
TIMER_UPDATE_INTERVAL == 100

NOISE_INCREASE_RATE == 15

NOISE_DECREASE_RATE == 8

WAKE_METER_MAX == 100

TV_INITIAL_DELAY_MIN == 8000

TV_INITIAL_DELAY_MAX == 15000

TV_SUBSEQUENT_DELAY_MIN == 10000

TV_SUBSEQUENT_DELAY_MAX == 20000

TV_ACTIVE_DURATION_MIN == 10000

TV_ACTIVE_DURATION_MAX == 18000

\* ---------------------------------------------------------------------------
\* Fixed-point scale and bounds of the exploration
\* ---------------------------------------------------------------------------
\* frame deltas are multiples of this many milliseconds
DeltaStep == TIMER_UPDATE_INTERVAL

\* one meter unit: tenths (rate * DeltaStep / 1000) x hundredths x hundredths
UNIT == 10 * 100 * 100

\* the frame deltas explored, in milliseconds
Deltas == {500, 1000}

\* frames explored per round
MaxFrames == 2

\* countdown ticks explored per round
MaxTicks == 2

\* power-up spawns explored per round
MaxSpawns == 1

\* ambient sources created per round within the exploration
MaxSources == 1

\* frames, ticks, spawns and source creations explored per round, together
MaxSteps == 2

\* the levels whose rounds are explored
PlayedLevels == {3, 5}

\* ---------------------------------------------------------------------------
\* Enumerations (src/src/types/GameTypes.ts)
\* ---------------------------------------------------------------------------
GameState == [PLAYING |-> "playing", PAUSED |-> "paused",
              VICTORY |-> "victory", GAME_OVER |-> "game_over"]

BearState == [SLEEPING |-> "sleeping", DROWSY |-> "drowsy", AWAKE |-> "awake"]

TVState == [OFF |-> "off", TURNING_ON |-> "turning_on",
            ON |-> "on", TURNING_OFF |-> "turning_off"]

PowerUpType == [ESPRESSO_SHOT |-> "espresso_shot",
                NOISE_HEADPHONES |-> "noise_headphones",
                WHITE_NOISE_MACHINE |-> "white_noise_machine",
                MEDITATION_STATE |-> "meditation_state",
                SOUND_SHIELD |-> "sound_shield",
                WINDOW_CONTROL |-> "window_control"]

PowerUpTypes == {PowerUpType[k] : k \in DOMAIN PowerUpType}

\* ---------------------------------------------------------------------------
\* PowerUpManager.initializePowerUpConfigs.  A factor the effect does not
\* have is 0 (falsy in the source's `if (effect.noiseReduction)`).
\* ---------------------------------------------------------------------------
PowerUpEffect(nr, boost, imm, slow) ==
    [noiseReduction |-> nr, noiseCancellationBoost |-> boost,
     temporaryImmunity |-> imm, noiseSlowdown |-> slow]

powerUpConfigs ==
    [t \in PowerUpTypes |->
       CASE t = "espresso_shot" ->
              [duration |-> 15000, cooldown |-> 30000,
               effect |-> PowerUpEffect(0, 0, FALSE, 50)]
         [] t = "noise_headphones" ->
              [duration |-> 20000, cooldown |-> 45000,
               effect |-> PowerUpEffect(25, 0, FALSE, 0)]
         [] t = "white_noise_machine" ->
              [duration |-> 12000, cooldown |-> 25000,
               effect |-> PowerUpEffect(40, 0, FALSE, 0)]
         [] t = "meditation_state" ->
              [duration |-> 10000, cooldown |-> 35000,
               effect |-> PowerUpEffect(0, 200, FALSE, 0)]
         [] t = "sound_shield" ->
              [duration |-> 8000, cooldown |-> 60000,
               effect |-> PowerUpEffect(0, 0, TRUE, 0)]
         [] t = "window_control" ->
              [duration |-> 25000, cooldown |-> 40000,
               effect |-> PowerUpEffect(40, 0, FALSE, 0)]]

getPowerUpConfig(type) == powerUpConfigs[type]

\* PowerUpManager.getPowerUpConfig: `if (!config) throw new Error('Power-up
\* configuration not found for type: ...')`
getPowerUpConfig_throws(type) == type \notin DOMAIN powerUpConfigs

\* ---------------------------------------------------------------------------
\* LevelManager.initializeLevels
\* ---------------------------------------------------------------------------
NoiseSourceConfig(id, intensity, pattern, freqTenths, duration, startDelay) ==
    [id |-> id, intensity |-> intensity, pattern |-> pattern,
     frequency |-> freqTenths, duration |-> duration, startDelay |-> startDelay]

TvConfig(imin, imax, smin, smax, amin, amax) ==
    [initialDelayMin |-> imin, initialDelayMax |-> imax,
     subsequentDelayMin |-> smin, subsequentDelayMax |-> smax,
     activeDurationMin |-> amin, activeDurationMax |-> amax]

Modifiers(inc, dec) ==
    [noiseIncreaseMultiplier |-> inc, noiseDecreaseMultiplier |-> dec]

levelConfigs ==
    [id \in 1..6 |->
       CASE id = 1 ->
              [duration |-> 30000,
               tvConfig |-> TvConfig(10000, 15000, 15000, 20000, 8000, 12000),
               noiseSources |-> << >>,
               availablePowerUps |-> {},
               modifiers |-> Modifiers(70, 120)]
         [] id = 2 ->
              [duration |-> 45000,
               tvConfig |-> TvConfig(8000, 12000, 12000, 18000, 10000, 15000),
               noiseSources |-> << >>,
               availablePowerUps |-> {"espresso_shot"},
               modifiers |-> Modifiers(85, 110)]
         [] id = 3 ->
              [duration |-> 60000,
               tvConfig |-> TvConfig(8000, 15000, 10000, 20000, 10000, 18000),
               noiseSources |-> << >>,
               availablePowerUps |-> {"espresso_shot", "white_noise_machine"},
               modifiers |-> Modifiers(100, 100)]
         [] id = 4 ->
              [duration |-> 60000,
               tvConfig |-> TvConfig(8000, 15000, 10000, 20000, 10000, 18000),
               noiseSources |->
                 << NoiseSourceConfig("neighbor_tv", 3, "random", 15, 8000, 15000),
                    NoiseSourceConfig("neighbor_music", 4, "scheduled", 10, 12000, 30000) >>,
               availablePowerUps |-> {"espresso_shot", "noise_headphones"},
               modifiers |-> Modifiers(110, 95)]
         [] id = 5 ->
              [duration |-> 75000,
               tvConfig |-> TvConfig(8000, 15000, 8000, 15000, 10000, 18000),
               noiseSources |->
                 << NoiseSourceConfig("drilling", 6, "scheduled", 20, 5000, 10000),
                    NoiseSourceConfig("hammering", 5, "random", 15, 3000, 20000),
                    NoiseSourceConfig("machinery", 8, "continuous", 5, 15000, 45000) >>,
               availablePowerUps |-> {"espresso_shot", "sound_shield", "meditation_state"},
               modifiers |-> Modifiers(130, 90)]
         [] id = 6 ->
              [duration |-> 90000,
               tvConfig |-> TvConfig(8000, 15000, 10000, 20000, 10000, 18000),
               noiseSources |->
                 << NoiseSourceConfig("traffic_horns", 4, "random", 30, 2000, 0),
                    NoiseSourceConfig("truck_engine", 7, "scheduled", 10, 8000, 25000),
                    NoiseSourceConfig("sirens", 9, "random", 5, 6000, 40000) >>,
               availablePowerUps |-> {"window_control", "white_noise_machine", "sound_shield"},
               modifiers |-> Modifiers(140, 85)]]

getLevelConfig(levelId) == levelConfigs[levelId]

\* ---------------------------------------------------------------------------
\* State
\* ---------------------------------------------------------------------------
VARIABLES
    lvl,                 \* GameScene.currentLevel.id
    gameState,           \* GameScene.gameState
    gameTimer,           \* GameScene.gameTimer (ms)
    spaceDown,           \* GameScene.inputState.spaceDown
    mouseDown,           \* GameScene.inputState.mouseDown
    touchActive,         \* GameScene.inputState.touchActive
    isNoiseCancelActive, \* GameScene.inputState.isNoiseCancelActive
    perfectSleep,        \* GameScene.gameStats.perfectSleep
    meterLevel,          \* NoiseMeter.meterState.currentLevel (1/UNIT)
    meterIsActive,       \* NoiseMeter.meterState.isActive
    bearNoise,           \* Bear.bearState.currentNoise (1/UNIT)
    bearState,           \* Bear.bearState.currentState
    tvState,             \* Television.tvState.currentState
    tvIsOn,              \* Television.tvState.isOn
    tvNoiseLevel,        \* Television.tvState.noiseLevel
    turnOnTimer,         \* Television.turnOnTimer is pending
    turnOffTimer,        \* Television.turnOffTimer is pending
    tvSchedule,          \* Television.tvState.turnOnDelay and the turn-on timers, see NoSchedule
    activePowerUps,      \* PowerUpManager.activePowerUps: type -> remainingDuration
    powerUpCooldowns,    \* PowerUpManager.powerUpCooldowns: type -> ms
    spawnedPowerUps,     \* types of the PowerUp entities on screen
    noiseSources,        \* NoiseSourceManager.noiseSources, ids in insertion order
    activeSources,       \* ids of the NoiseSources whose isActive is true
    pendingSources,      \* ids whose createNoiseSource delayedCall is pending
    frames,              \* frames run while Playing (exploration budget)
    ticks,               \* countdown ticks run while Playing (exploration budget)
    spawns,              \* power-ups spawned (exploration budget)
    wakeUps,             \* observer: BEAR_WAKE_UP events emitted this round
    gameOvers,           \* observer: runs of GameScene.gameOver this round
    riseMs,              \* observer: see TrackRise
    fallMs,              \* observer: see TrackFall
    fallBase,            \* observer: see TrackFall
    flashing,            \* types of the collected PowerUps whose destroy is pending
    activation,          \* observer: the last call of activatePowerUp
    meterEvent,          \* observer: the last direct call of NoiseMeter.addNoise/reduceNoise
    currentScore,        \* GameScene.currentScore
    unlockedLevels,      \* LevelManager.unlockedLevels
    levelProgress,       \* LevelManager.levelProgress: level id -> LevelProgress
    storage,             \* localStorage: its availability and the item 'snooze_game_progress'
    loadError,           \* observer: the last loadProgress let an exception escape
    listeners,           \* registrations of GameScene.setupEventListeners on the eventBus
    rounds,              \* rounds started after the first one (exploration budget)
    roundStart,          \* observer: unlockedLevels and levelProgress when the round started
    managerCall,         \* observer: the last direct call of a PowerUpManager method
    sinceSpawn,          \* observer: type -> ms of PowerUpManager.update since its last spawn
    rawInput,            \* observer: the space key and the pointer on the mute button are held
    cancelTrace,         \* observer: what the last input handler emitted and called
    source,              \* one NoiseSource with the scene clock, see NoNoiseSource
    bus,                 \* an EventBus with its subscribers, see NewEventBus
    managerLevel,        \* LevelManager.currentLevel
    levelCall,           \* observer: the last level selection, round start or reset
    activeScene          \* the Phaser scene that is running

vars == << lvl, gameState, gameTimer, spaceDown, mouseDown, touchActive,
           isNoiseCancelActive, perfectSleep, meterLevel, meterIsActive,
           bearNoise, bearState, tvState, tvIsOn, tvNoiseLevel, turnOnTimer,
           turnOffTimer, tvSchedule, activePowerUps, powerUpCooldowns, spawnedPowerUps,
           noiseSources, activeSources, pendingSources, frames, ticks, spawns,
           wakeUps, gameOvers, riseMs, fallMs, fallBase, flashing, activation,
           meterEvent, currentScore, unlockedLevels, levelProgress, storage,
           loadError, listeners, rounds, roundStart, managerCall, sinceSpawn,
           rawInput, cancelTrace, source, bus, managerLevel, levelCall,
           activeScene >>

sceneVars == << lvl, gameState, gameTimer, perfectSleep >>
inputVars == << spaceDown, mouseDown, touchActive, isNoiseCancelActive, meterIsActive >>
noiseVars == << meterLevel, bearNoise, bearState, wakeUps, gameOvers >>
tvVars == << tvState, tvIsOn, tvNoiseLevel, turnOnTimer, turnOffTimer, tvSchedule >>
powerUpVars == << activePowerUps, powerUpCooldowns, spawnedPowerUps, spawns >>
sourceVars == << noiseSources, activeSources, pendingSources >>
trackVars == << riseMs, fallMs, fallBase >>
collectVars == << flashing, activation >>

\* the state outside the frame, the countdown, the inputs and the TV
levelVars == << unlockedLevels, levelProgress, storage >>
probeVars == << source, bus, managerLevel, levelCall, activeScene >>
harnessVars == << managerCall, sinceSpawn, rawInput, cancelTrace, probeVars >>
fixedVars == << meterEvent, loadError, listeners, rounds, roundStart, harnessVars >>
outerVars == << fixedVars, currentScore, levelVars >>
restVars == << collectVars, outerVars >>

\* ---------------------------------------------------------------------------
\* Helpers
\* ---------------------------------------------------------------------------
Min(a, b) == IF a <= b THEN a ELSE b

Max(a, b) == IF a >= b THEN a ELSE b

\* rate (units/s) x ms / 1000 x m1 x m2, in 1/UNIT; exact for ms a multiple
\* of DeltaStep.  Models `(RATE * delta) / 1000` followed by `*= m1`, `*= m2`.
Amount(rate, ms, m1, m2) == rate * (ms \div DeltaStep) * m1 * m2

\* NoiseMeter.meterState.maxLevel and Bear.bearState.wakeThreshold, in 1/UNIT
maxLevel == WAKE_METER_MAX * UNIT

wakeThreshold == WAKE_METER_MAX * UNIT

currentLevel == getLevelConfig(lvl)

\* the sources createNoiseSources creates at once (no startDelay), in order
RECURSIVE ImmediateSources(_, _)
ImmediateSources(cfgs, i) ==
    IF i > Len(cfgs) THEN << >>
    ELSE IF cfgs[i].startDelay = 0
         THEN << cfgs[i].id >> \o ImmediateSources(cfgs, i + 1)
         ELSE ImmediateSources(cfgs, i + 1)

\* the part of the exploration budget a round has used: its frames, ticks,
\* spawns and the sources created by a delayed call
Steps ==
    frames + ticks + spawns
      + (Len(noiseSources) - Len(ImmediateSources(currentLevel.noiseSources, 1)))

\* ---------------------------------------------------------------------------
\* LevelManager and its record in localStorage
\* ---------------------------------------------------------------------------
\* the property name Object.fromEntries gives a numeric Map key
KeyOf(n) == << "1", "2", "3", "4", "5", "6", "7" >>[n]

\* Number(key) of a property name written by KeyOf
NumberOf(key) == CHOOSE n \in 1..7 : KeyOf(n) = key

\* Array.from(set): the levels are unlocked, and so inserted, in ascending order
RECURSIVE ArrayFrom(_)
ArrayFrom(set) ==
    IF set = {} THEN << >>
    ELSE LET m == CHOOSE x \in set : \A y \in set : x <= y
         IN << m >> \o ArrayFrom(set \ {m})

\* new Set(array)
SetOf(array) == {array[i] : i \in DOMAIN array}

\* localStorage.getItem returning null: nothing stored under the key
NoItem ==
    [kind |-> "null", hasUnlockedLevels |-> FALSE, unlockedLevels |-> << >>,
     hasLevelProgress |-> FALSE, levelProgress |-> << >>]

\* a stored text that JSON.parse rejects
CorruptItem == [NoItem EXCEPT !.kind = "corrupt"]

\* JSON.stringify({unlockedLevels: Array.from(unlocked),
\*                 levelProgress: Object.fromEntries(progress)})
Stringify(unlocked, progress) ==
    [kind |-> "json",
     hasUnlockedLevels |-> TRUE, unlockedLevels |-> ArrayFrom(unlocked),
     hasLevelProgress |-> TRUE,
     levelProgress |-> [k \in {KeyOf(l) : l \in DOMAIN progress} |-> progress[NumberOf(k)]]]

\* LevelManager.saveProgress: the storage after the call.  Nothing is written
\* when `typeof Storage === 'undefined'` or when the access throws (caught).
saveProgress(unlocked, progress, st) ==
    IF st.access = "ok" THEN [st EXCEPT !.item = Stringify(unlocked, progress)] ELSE st

\* the try block of LevelManager.loadProgress on an instance lm: the fields
\* after it, or threw when the storage access or JSON.parse throws
loadProgress_try(lm, st) ==
    IF st.access = "throws" THEN [lm EXCEPT !.threw = TRUE]
    ELSE IF st.access = "undefined" \/ st.item.kind = "null"
    THEN [lm EXCEPT !.unlockedLevels = {1}]
    ELSE IF st.item.kind = "corrupt" THEN [lm EXCEPT !.threw = TRUE]
    ELSE LET stored == IF st.item.hasLevelProgress THEN st.item.levelProgress ELSE << >>
         IN [threw |-> FALSE,
             unlockedLevels |-> SetOf(IF st.item.hasUnlockedLevels
                                      THEN st.item.unlockedLevels ELSE << 1 >>),
             levelProgress |-> [l \in {NumberOf(k) : k \in DOMAIN stored} |-> stored[KeyOf(l)]]]

\* loadProgress that reads the stored progress and ignores the stored unlocked levels
loadProgress_defaultUnlocked(lm, st) ==
    LET r == loadProgress_try([lm EXCEPT !.threw = FALSE], st)
    IN [error |-> FALSE, unlockedLevels |-> {1}, levelProgress |-> r.levelProgress]

\* loadProgress without the catch block
loadProgress_nocatch(lm, st) ==
    LET r == loadProgress_try([lm EXCEPT !.threw = FALSE], st)
    IN [error |-> r.threw, unlockedLevels |-> r.unlockedLevels,
        levelProgress |-> r.levelProgress]

\* LevelManager.loadProgress: the catch block sets the unlocked levels to {1};
\* no exception leaves the method
loadProgress(lm, st) ==
    LET r == loadProgress_try([lm EXCEPT !.threw = FALSE], st)
    IN [error |-> FALSE,
        unlockedLevels |-> IF r.threw THEN {1} ELSE r.unlockedLevels,
        levelProgress |-> r.levelProgress]

\* the LevelManager constructor: the field initialisers, then loadProgress
NewLevelManager(st) ==
    loadProgress([threw |-> FALSE, unlockedLevels |-> {1}, levelProgress |-> << >>], st)

\* completeLevel that raises the best score and leaves the rest of the record
completeLevel_keepsAttempts(s, levelId, score, stats) ==
    LET has == levelId \in DOMAIN s.levelProgress
        previous == IF has THEN s.levelProgress[levelId]
                    ELSE [completed |-> FALSE, bestScore |-> 0, attempts |-> 0, stats |-> stats]
        newProgress == [previous EXCEPT !.bestScore = Max(@, score)]
        progress == [l \in DOMAIN s.levelProgress \cup {levelId} |->
                        IF l = levelId THEN newProgress ELSE s.levelProgress[l]]
    IN [s EXCEPT !.levelProgress = progress,
                 !.storage = saveProgress(s.unlockedLevels, progress, s.storage)]

\* LevelManager.completeLevel: the new record, `unlockLevel(levelId + 1)` when
\* that level has a configuration (it saves), saveProgress
completeLevel(s, levelId, score, stats) ==
    LET has == levelId \in DOMAIN s.levelProgress
        newProgress == [completed |-> TRUE,
                        bestScore |-> Max(IF has THEN s.levelProgress[levelId].bestScore ELSE 0,
                                          score),
                        attempts |-> (IF has THEN s.levelProgress[levelId].attempts ELSE 0) + 1,
                        stats |-> stats]
        progress == [l \in DOMAIN s.levelProgress \cup {levelId} |->
                        IF l = levelId THEN newProgress ELSE s.levelProgress[l]]
        unlocked == IF levelId + 1 \in DOMAIN levelConfigs
                    THEN s.unlockedLevels \cup {levelId + 1}
                    ELSE s.unlockedLevels
    IN [s EXCEPT !.levelProgress = progress,
                 !.unlockedLevels = unlocked,
                 !.storage = saveProgress(unlocked, progress, s.storage)]



\* ---------------------------------------------------------------------------
\* The part of the state that event handlers change while an event is being
\* dispatched, threaded through the handlers as a record.
\* ---------------------------------------------------------------------------
Sim == [gameState |-> gameState, meterLevel |-> meterLevel,
        bearNoise |-> bearNoise, bearState |-> bearState,
        perfectSleep |-> perfectSleep, wakeUps |-> wakeUps, gameOvers |-> gameOvers,
        gameTimer |-> gameTimer, unlockedLevels |-> unlockedLevels,
        levelProgress |-> levelProgress, storage |-> storage]

\* gameOver that records the level as completed, as victory does
gameOver_completes(s) ==
    completeLevel([s EXCEPT !.gameState = GameState.GAME_OVER, !.gameOvers = @ + 1],
                  lvl, currentScore,
                  [timeRemaining |-> s.gameTimer, perfectSleep |-> s.perfectSleep])

\* gameOver that shows the modal and leaves gameState as it is
gameOver_keepsState(s) == s

\* GameScene.gameOver: the state, gameStats.timeRemaining and the end modal
gameOver(s) == [s EXCEPT !.gameState = GameState.GAME_OVER, !.gameOvers = @ + 1]

\* GameScene.victory: the state, gameStats.timeRemaining = gameTimer, and
\* levelManager.completeLevel(currentLevel.id, currentScore, gameStats)
victory(s) ==
    completeLevel([s EXCEPT !.gameState = GameState.VICTORY], lvl, currentScore,
                  [timeRemaining |-> s.gameTimer, perfectSleep |-> s.perfectSleep])

\* GameScene.onBearWakeUp, subscribed to BEAR_WAKE_UP
onBearWakeUp(s) == gameOver(s)

\* GameScene.onMeterUpdate, subscribed to METER_UPDATE; percentage in 1/UNIT
onMeterUpdate(s, percentage) ==
    IF percentage >= 100 * UNIT THEN gameOver(s) ELSE s

\* GameScene.onBearStateChange, subscribed to BEAR_STATE_CHANGE
onBearStateChange(s, newState) ==
    IF newState # BearState.SLEEPING THEN [s EXCEPT !.perfectSleep = FALSE] ELSE s

\* Bear.getNoisePercentage: (currentNoise / wakeThreshold) * 100, in 1/UNIT
getNoisePercentage(noise) == (noise * 100) \div WAKE_METER_MAX

\* NoiseMeter.getPercentage: (currentLevel / maxLevel) * 100, in 1/UNIT
getPercentage(level) == (level * 100) \div WAKE_METER_MAX

\* the tier Bear.updateStateBasedOnNoise computes from a percentage (1/UNIT)
TierOf(percentage) ==
    IF percentage >= 100 * UNIT THEN BearState.AWAKE
    ELSE IF percentage >= 50 * UNIT THEN BearState.DROWSY
    ELSE BearState.SLEEPING

\* updateStateBasedOnNoise that emits BEAR_WAKE_UP whenever the tier computed
\* is AWAKE, changed or not
updateStateBasedOnNoise_refires(s) ==
    LET newState == TierOf(getNoisePercentage(s.bearNoise))
        s1 == IF newState # s.bearState
              THEN onBearStateChange([s EXCEPT !.bearState = newState], newState)
              ELSE s
    IN IF newState = BearState.AWAKE
       THEN onBearWakeUp([s1 EXCEPT !.wakeUps = @ + 1])
       ELSE s1

\* Bear.updateStateBasedOnNoise: on a change of tier emit BEAR_STATE_CHANGE,
\* and BEAR_WAKE_UP when the new tier is AWAKE
updateStateBasedOnNoise(s) ==
    LET newState == TierOf(getNoisePercentage(s.bearNoise))
    IN IF newState # s.bearState
       THEN LET s1 == onBearStateChange([s EXCEPT !.bearState = newState], newState)
            IN IF newState = BearState.AWAKE
               THEN onBearWakeUp([s1 EXCEPT !.wakeUps = @ + 1])
               ELSE s1
       ELSE s

\* Bear.addNoise without the Math.min clamp at wakeThreshold
Bear_addNoise_unclamped(s, amount) ==
    updateStateBasedOnNoise([s EXCEPT !.bearNoise = s.bearNoise + amount])

\* Bear.addNoise
Bear_addNoise(s, amount) ==
    updateStateBasedOnNoise(
        [s EXCEPT !.bearNoise = Min(s.bearNoise + amount, wakeThreshold)])

\* reduceNoise that leaves the tier to the next Bear.update
Bear_reduceNoise_keepsTier(s, amount) ==
    [s EXCEPT !.bearNoise = Max(s.bearNoise - amount, 0)]

\* Bear.reduceNoise
Bear_reduceNoise(s, amount) ==
    updateStateBasedOnNoise(
        [s EXCEPT !.bearNoise = Max(s.bearNoise - amount, 0)])

\* addNoise without the Math.min clamp
NoiseMeter_addNoise_unclamped(s, amount) ==
    LET new == s.meterLevel + amount
        s1 == [s EXCEPT !.meterLevel = new]
    IN IF new # s.meterLevel THEN onMeterUpdate(s1, getPercentage(new)) ELSE s1

\* NoiseMeter.addNoise: METER_UPDATE is emitted when the level changed
NoiseMeter_addNoise(s, amount) ==
    LET new == Min(s.meterLevel + amount, maxLevel)
        s1 == [s EXCEPT !.meterLevel = new]
    IN IF new # s.meterLevel THEN onMeterUpdate(s1, getPercentage(new)) ELSE s1

\* NoiseMeter.reduceNoise
NoiseMeter_reduceNoise(s, amount) ==
    LET new == Max(s.meterLevel - amount, 0)
        s1 == [s EXCEPT !.meterLevel = new]
    IN IF new # s.meterLevel THEN onMeterUpdate(s1, getPercentage(new)) ELSE s1

\* addNoise that emits METER_UPDATE on every call
NoiseMeter_addNoise_event_always(level, amount) ==
    LET new == Min(level + amount, maxLevel)
    IN [emitted |-> TRUE, level |-> new,
        percentage |-> getPercentage(new), isIncreasing |-> TRUE]

\* what NoiseMeter.addNoise emits: METER_UPDATE {level, percentage,
\* isIncreasing: true} when `currentLevel !== oldLevel`
NoiseMeter_addNoise_event(level, amount) ==
    LET new == Min(level + amount, maxLevel)
    IN [emitted |-> new # level, level |-> new,
        percentage |-> getPercentage(new), isIncreasing |-> TRUE]

\* what NoiseMeter.reduceNoise emits: METER_UPDATE {level, percentage,
\* isIncreasing: false} when `currentLevel !== oldLevel`
NoiseMeter_reduceNoise_event(level, amount) ==
    LET new == Max(level - amount, 0)
    IN [emitted |-> new # level, level |-> new,
        percentage |-> getPercentage(new), isIncreasing |-> FALSE]

\* `this.bear.addNoise(a); this.noiseMeter.addNoise(a)` of GameScene
addNoiseToBoth(s, amount) == NoiseMeter_addNoise(Bear_addNoise(s, amount), amount)

\* `this.bear.reduceNoise(a); this.noiseMeter.reduceNoise(a)` of GameScene
reduceNoiseOfBoth(s, amount) == NoiseMeter_reduceNoise(Bear_reduceNoise(s, amount), amount)

\* ---------------------------------------------------------------------------
\* PowerUpManager
\* ---------------------------------------------------------------------------
\* the running product `multiplier *= factor` over the active power-ups whose
\* effect has the factor (hundredths)
RECURSIVE ProductOf(_, _)
ProductOf(types, field) ==
    IF types = {} THEN 100
    ELSE LET t == CHOOSE x \in types : TRUE
             f == getPowerUpConfig(t).effect[field]
             rest == ProductOf(types \ {t}, field)
         IN IF f # 0 THEN (rest * f) \div 100 ELSE rest

\* getNoiseReductionMultiplier returning the strongest single factor
getNoiseReductionMultiplier_strongest(active) ==
    LET factors == {getPowerUpConfig(t).effect.noiseReduction : t \in DOMAIN active} \ {0}
    IN IF factors = {} THEN 100
       ELSE CHOOSE f \in factors : \A g \in factors : f <= g

\* PowerUpManager.getNoiseReductionMultiplier
getNoiseReductionMultiplier(active) == ProductOf(DOMAIN active, "noiseReduction")

\* PowerUpManager.getNoiseCancellationMultiplier
getNoiseCancellationMultiplier(active) == ProductOf(DOMAIN active, "noiseCancellationBoost")

\* PowerUpManager.hasTemporaryImmunity
hasTemporaryImmunity(active) ==
    \E t \in DOMAIN active : getPowerUpConfig(t).effect.temporaryImmunity

\* activatePowerUp without the `has(type)` test: a second activation replaces
\* the running instance
activatePowerUp_restarts(active, type) ==
    [t \in DOMAIN active \cup {type} |->
        IF t = type THEN getPowerUpConfig(type).duration ELSE active[t]]

\* activatePowerUp storing an entry before the configuration is looked up: a
\* type without configuration is left in the map
activatePowerUp_insertsUnknown(active, type) ==
    IF type \in DOMAIN active THEN active
    ELSE [t \in DOMAIN active \cup {type} |->
            IF t # type THEN active[t]
            ELSE IF getPowerUpConfig_throws(type) THEN 1
            ELSE getPowerUpConfig(type).duration]

\* PowerUpManager.activatePowerUp: the active map afterwards.  The lookup of
\* the configuration comes before `activePowerUps.set`, so its exception
\* leaves the map as it was.
activatePowerUp(active, type) ==
    IF type \in DOMAIN active THEN active
    ELSE IF getPowerUpConfig_throws(type) THEN active
    ELSE [t \in DOMAIN active \cup {type} |->
            IF t = type THEN getPowerUpConfig(type).duration ELSE active[t]]

\* PowerUpManager.activatePowerUp: the value returned, whether
\* POWERUP_ACTIVATED is emitted and the exception that escapes
activatePowerUp_outcome(active, type) ==
    IF type \in DOMAIN active
    THEN [returned |-> FALSE, emitted |-> FALSE, error |-> "none"]
    ELSE IF getPowerUpConfig_throws(type)
    THEN [returned |-> FALSE, emitted |-> FALSE, error |-> "not found"]
    ELSE [returned |-> TRUE, emitted |-> TRUE, error |-> "none"]

\* PowerUpManager.update whose first loop does not delete the power-ups that
\* expired
updateActivePowerUps_keepsExpired(active, delta) ==
    [t \in DOMAIN active |-> active[t] - delta]

\* PowerUpManager.update, first loop: ActivePowerUp.update(delta) on every
\* active power-up, deleting those that expired (remainingDuration <= 0)
updateActivePowerUps(active, delta) ==
    [t \in {x \in DOMAIN active : active[x] - delta > 0} |-> active[t] - delta]

\* PowerUpManager.update, second loop: the cooldowns
updateCooldowns(cooldowns, delta) ==
    [t \in {x \in DOMAIN cooldowns : cooldowns[x] - delta > 0} |-> cooldowns[t] - delta]

\* ---------------------------------------------------------------------------
\* NoiseSourceManager and NoiseSource.  The clock is not modelled: whether a
\* source's `time >= nextActivationTime` or `time >= currentEventEndTime`
\* holds in a frame is an input of the frame, the set `due` of source ids.
\* ---------------------------------------------------------------------------
SourceConfig(id) ==
    LET cfgs == currentLevel.noiseSources
    IN cfgs[CHOOSE i \in DOMAIN cfgs : cfgs[i].id = id]

\* GameScene.onNoiseSourceStart, subscribed to NOISE_SOURCE_START
onNoiseSourceStart(s, intensity) ==
    IF ~isNoiseCancelActive /\ ~hasTemporaryImmunity(activePowerUps)
    THEN addNoiseToBoth(s, Amount(intensity, TIMER_UPDATE_INTERVAL,
                                  getNoiseReductionMultiplier(activePowerUps),
                                  currentLevel.modifiers.noiseIncreaseMultiplier))
    ELSE s

\* eventBus.emit(NOISE_SOURCE_START): GameScene.onNoiseSourceStart runs once
\* for each of the n registrations of it on the bus
RECURSIVE emitNoiseSourceStart(_, _, _)
emitNoiseSourceStart(s, intensity, n) ==
    IF n = 0 THEN s
    ELSE emitNoiseSourceStart(onNoiseSourceStart(s, intensity), intensity, n - 1)

\* NoiseSourceManager.update: NoiseSource.update on every source in insertion
\* order, from index i on.  An inactive source that is due activates (and
\* emits NOISE_SOURCE_START), an active one that is due deactivates.
RECURSIVE NoiseSourceManager_update(_, _, _, _)
NoiseSourceManager_update(s, active, due, i) ==
    IF i > Len(noiseSources) THEN [sim |-> s, active |-> active]
    ELSE LET id == noiseSources[i]
         IN IF id \notin due
            THEN NoiseSourceManager_update(s, active, due, i + 1)
            ELSE IF id \notin active
            THEN NoiseSourceManager_update(
                     emitNoiseSourceStart(s, SourceConfig(id).intensity, listeners),
                     active \cup {id}, due, i + 1)
            ELSE NoiseSourceManager_update(s, active \ {id}, due, i + 1)

\* NoiseSourceManager.getTotalNoiseLevel
RECURSIVE getTotalNoiseLevel(_)
getTotalNoiseLevel(active) ==
    IF active = {} THEN 0
    ELSE LET id == CHOOSE x \in active : TRUE
         IN SourceConfig(id).intensity + getTotalNoiseLevel(active \ {id})

\* ---------------------------------------------------------------------------
\* GameScene
\* ---------------------------------------------------------------------------
\* GameScene.onTVNoiseStart, subscribed to TV_NOISE_START
onTVNoiseStart(s, noiseLevel) ==
    IF ~isNoiseCancelActive
    THEN addNoiseToBoth(s, Amount(noiseLevel, TIMER_UPDATE_INTERVAL, 100, 100))
    ELSE s

\* eventBus.emit(TV_NOISE_START): GameScene.onTVNoiseStart runs once for each
\* of the n registrations of it on the bus
RECURSIVE emitTVNoiseStart(_, _, _)
emitTVNoiseStart(s, noiseLevel, n) ==
    IF n = 0 THEN s ELSE emitTVNoiseStart(onTVNoiseStart(s, noiseLevel), noiseLevel, n - 1)

\* Television.update: while ON the TV emits TV_NOISE_START every frame
Television_update(s) ==
    IF tvIsOn /\ tvState = TVState.ON THEN emitTVNoiseStart(s, tvNoiseLevel, listeners) ELSE s

\* the suppression time of the rounds explored stays below 20% of the level's
\* duration (gameStats.stealthMode && noiseCancelUsage < duration * 0.2)
stealthBonus == TRUE

\* GameScene.updateScore with the countdown at timer
updateScore(timer, perfect) ==
    (timer \div 1000) * 10
      + (IF perfect THEN 500 ELSE 0)
      + (IF stealthBonus THEN 300 ELSE 0)

\* checkVictoryCondition with its two branches exchanged
checkVictoryCondition_swapped(s) ==
    IF s.meterLevel < maxLevel THEN gameOver(s) ELSE victory(s)

\* GameScene.checkVictoryCondition
checkVictoryCondition(s) ==
    IF s.meterLevel < maxLevel THEN victory(s) ELSE gameOver(s)

\* the reduction computed from the timer interval instead of the frame delta
applyNoiseCancel_ignoresDelta(s, active, delta) ==
    IF isNoiseCancelActive
    THEN reduceNoiseOfBoth(s, Amount(NOISE_DECREASE_RATE, TIMER_UPDATE_INTERVAL,
                                     getNoiseCancellationMultiplier(active),
                                     currentLevel.modifiers.noiseDecreaseMultiplier))
    ELSE s

\* GameScene.update, `if (this.inputState.isNoiseCancelActive) { ... }`
applyNoiseCancel(s, active, delta) ==
    IF isNoiseCancelActive
    THEN reduceNoiseOfBoth(s, Amount(NOISE_DECREASE_RATE, delta,
                                     getNoiseCancellationMultiplier(active),
                                     currentLevel.modifiers.noiseDecreaseMultiplier))
    ELSE s

\* the TV's per-frame noise added without looking at suppression
applyTVNoise_ignoresCancel(s, active, delta) ==
    IF tvIsOn /\ ~hasTemporaryImmunity(active)
    THEN addNoiseToBoth(s, Amount(NOISE_INCREASE_RATE, delta,
                                  getNoiseReductionMultiplier(active),
                                  currentLevel.modifiers.noiseIncreaseMultiplier))
    ELSE s

\* GameScene.update, `if (this.television.isOn() && !isNoiseCancelActive &&
\* !hasTemporaryImmunity()) { ... }`
applyTVNoise(s, active, delta) ==
    IF tvIsOn /\ ~isNoiseCancelActive /\ ~hasTemporaryImmunity(active)
    THEN addNoiseToBoth(s, Amount(NOISE_INCREASE_RATE, delta,
                                  getNoiseReductionMultiplier(active),
                                  currentLevel.modifiers.noiseIncreaseMultiplier))
    ELSE s

\* GameScene.update, `if (totalNoiseSourceLevel > 0 && !isNoiseCancelActive &&
\* !hasTemporaryImmunity()) { ... }`
applySourceNoise(s, active, total, delta) ==
    IF total > 0 /\ ~isNoiseCancelActive /\ ~hasTemporaryImmunity(active)
    THEN addNoiseToBoth(s, Amount(total, delta,
                                  getNoiseReductionMultiplier(active),
                                  currentLevel.modifiers.noiseIncreaseMultiplier))
    ELSE s

\* GameScene.update, the part after the PLAYING guard: the sim record after
\* the frame, with the power-up maps and the active sources after the frame
Frame(delta, due) ==
    LET s1 == updateStateBasedOnNoise(Sim)                      \* bear.update
        s2 == Television_update(s1)                             \* television.update
        r3 == NoiseSourceManager_update(s2, activeSources, due, 1)
        active == updateActivePowerUps(activePowerUps, delta)   \* powerUpManager.update
        cooldowns == updateCooldowns(powerUpCooldowns, delta)
        s4 == applyNoiseCancel(r3.sim, active, delta)
        s5 == applyTVNoise(s4, active, delta)
        s6 == applySourceNoise(s5, active, getTotalNoiseLevel(r3.active), delta)
    IN [sim |-> s6, active |-> active, cooldowns |-> cooldowns, sources |-> r3.active]

\* the handlers' results written back to the state
SetSim(s) ==
    /\ gameState' = s.gameState
    /\ meterLevel' = s.meterLevel
    /\ bearNoise' = s.bearNoise
    /\ bearState' = s.bearState
    /\ perfectSleep' = s.perfectSleep
    /\ wakeUps' = s.wakeUps
    /\ gameOvers' = s.gameOvers
    /\ unlockedLevels' = s.unlockedLevels
    /\ levelProgress' = s.levelProgress
    /\ storage' = s.storage

\* ---------------------------------------------------------------------------
\* Observers of the two timing scenarios
\* ---------------------------------------------------------------------------
\* riseMs: the summed deltas of the frames run since the meter was at 0, as
\* long as every one of them ran with the TV in phase ON, suppression off, no
\* active power-up, no ambient source active or due and level increase
\* multiplier 1.0; -1 when no such run is in progress.
TrackRise(delta, due) ==
    IF /\ tvIsOn /\ tvState = TVState.ON
       /\ ~isNoiseCancelActive
       /\ DOMAIN activePowerUps = {}
       /\ activeSources = {} /\ due = {}
       /\ currentLevel.modifiers.noiseIncreaseMultiplier = 100
    THEN IF riseMs >= 0 THEN riseMs + delta
         ELSE IF meterLevel = 0 THEN delta ELSE -1
    ELSE -1

\* fallMs, fallBase: the summed deltas of the frames run with suppression
\* active, no suppression-boost power-up active and level decrease multiplier
\* 1.0, and the meter level before the first of them; -1 and 0 when no such
\* run is in progress.
FallRun ==
    /\ isNoiseCancelActive
    /\ getNoiseCancellationMultiplier(activePowerUps) = 100
    /\ currentLevel.modifiers.noiseDecreaseMultiplier = 100

TrackFall(delta) ==
    IF FallRun
    THEN IF fallMs >= 0
         THEN [ms |-> fallMs + delta, base |-> fallBase]
         ELSE [ms |-> delta, base |-> meterLevel]
    ELSE [ms |-> -1, base |-> 0]

\* ---------------------------------------------------------------------------
\* Actions: one per callback
\* ---------------------------------------------------------------------------
\* GameScene.update(time, delta)
Update(delta, due) ==
    /\ IF gameState # GameState.PLAYING
       THEN UNCHANGED << sceneVars, inputVars, noiseVars, tvVars, powerUpVars,
                         sourceVars, frames, ticks, trackVars, restVars >>
       ELSE /\ frames < MaxFrames /\ Steps < MaxSteps
            /\ frames' = frames + 1
            /\ LET r == Frame(delta, due)
                   f == TrackFall(delta)
               IN /\ SetSim(r.sim)
                  /\ activePowerUps' = r.active
                  /\ powerUpCooldowns' = r.cooldowns
                  /\ activeSources' = r.sources
                  /\ riseMs' = TrackRise(delta, due)
                  /\ fallMs' = f.ms
                  /\ fallBase' = f.base
            /\ UNCHANGED << lvl, gameTimer, inputVars, tvVars, spawnedPowerUps,
                            spawns, noiseSources, pendingSources, ticks,
                            collectVars, fixedVars, currentScore >>

\* updateGameTimer that tests `< 0` where the code tests `<= 0`
UpdateGameTimer_strict ==
    /\ IF gameState # GameState.PLAYING
       THEN UNCHANGED << sceneVars, noiseVars, ticks, currentScore, levelVars >>
       ELSE /\ ticks < MaxTicks /\ Steps < MaxSteps
            /\ ticks' = ticks + 1
            /\ IF gameTimer - TIMER_UPDATE_INTERVAL < 0
               THEN /\ gameTimer' = 0
                    /\ SetSim(checkVictoryCondition([Sim EXCEPT !.gameTimer = 0]))
               ELSE /\ gameTimer' = gameTimer - TIMER_UPDATE_INTERVAL
                    /\ UNCHANGED << gameState, perfectSleep, noiseVars, levelVars >>
            /\ currentScore' = updateScore(gameTimer', perfectSleep')   \* updateTimerDisplay
            /\ UNCHANGED lvl
    /\ UNCHANGED << inputVars, tvVars, powerUpVars, sourceVars, frames, trackVars,
                    collectVars, fixedVars >>

\* updateGameTimer that keeps counting while the round is paused
UpdateGameTimer_whilePaused ==
    /\ IF gameState \notin {GameState.PLAYING, GameState.PAUSED}
       THEN UNCHANGED << sceneVars, noiseVars, ticks, currentScore, levelVars >>
       ELSE /\ ticks < MaxTicks /\ Steps < MaxSteps
            /\ ticks' = ticks + 1
            /\ IF gameTimer - TIMER_UPDATE_INTERVAL <= 0
               THEN /\ gameTimer' = 0
                    /\ SetSim(checkVictoryCondition([Sim EXCEPT !.gameTimer = 0]))
               ELSE /\ gameTimer' = gameTimer - TIMER_UPDATE_INTERVAL
                    /\ UNCHANGED << gameState, perfectSleep, noiseVars, levelVars >>
            /\ currentScore' = updateScore(gameTimer', perfectSleep')
            /\ UNCHANGED lvl
    /\ UNCHANGED << inputVars, tvVars, powerUpVars, sourceVars, frames, trackVars,
                    collectVars, fixedVars >>

\* GameScene.updateGameTimer, the looping countdown timer event
UpdateGameTimer ==
    /\ IF gameState # GameState.PLAYING
       THEN UNCHANGED << sceneVars, noiseVars, ticks, currentScore, levelVars >>
       ELSE /\ ticks < MaxTicks /\ Steps < MaxSteps
            /\ ticks' = ticks + 1
            /\ IF gameTimer - TIMER_UPDATE_INTERVAL <= 0
               THEN /\ gameTimer' = 0
                    /\ SetSim(checkVictoryCondition([Sim EXCEPT !.gameTimer = 0]))
               ELSE /\ gameTimer' = gameTimer - TIMER_UPDATE_INTERVAL
                    /\ UNCHANGED << gameState, perfectSleep, noiseVars, levelVars >>
            /\ currentScore' = updateScore(gameTimer', perfectSleep')   \* updateTimerDisplay
            /\ UNCHANGED lvl
    /\ UNCHANGED << inputVars, tvVars, powerUpVars, sourceVars, frames, trackVars,
                    collectVars, fixedVars >>

\* updateNoiseCancelState without the `shouldBeActive !== isNoiseCancelActive`
\* test
updateNoiseCancelState_event_always(active, space, mouse, touch) ==
    IF space \/ mouse \/ touch
    THEN [emitted |-> "NOISE_CANCEL_START", called |-> "activateNoiseCanceling"]
    ELSE [emitted |-> "NOISE_CANCEL_STOP", called |-> "deactivateNoiseCanceling"]

\* GameScene.updateNoiseCancelState with isNoiseCancelActive = active: the
\* event it emits and the NoiseMeter method it calls
updateNoiseCancelState_event(active, space, mouse, touch) ==
    LET shouldBeActive == space \/ mouse \/ touch
    IN IF shouldBeActive = active
       THEN [emitted |-> "none", called |-> "none"]
       ELSE IF shouldBeActive
       THEN [emitted |-> "NOISE_CANCEL_START", called |-> "activateNoiseCanceling"]
       ELSE [emitted |-> "NOISE_CANCEL_STOP", called |-> "deactivateNoiseCanceling"]

\* GameScene.updateNoiseCancelState, given the raw signals after the handler
updateNoiseCancelState(space, mouse, touch) ==
    LET shouldBeActive == space \/ mouse \/ touch
    IN IF shouldBeActive # isNoiseCancelActive
       THEN /\ isNoiseCancelActive' = shouldBeActive
            /\ meterIsActive' = shouldBeActive   \* (de)activateNoiseCanceling
       ELSE UNCHANGED << isNoiseCancelActive, meterIsActive >>

\* GameScene.onSpaceDown: what it does to inputState and the NoiseMeter
onSpaceDown ==
    IF gameState # GameState.PLAYING
    THEN UNCHANGED inputVars
    ELSE /\ spaceDown' = TRUE
         /\ updateNoiseCancelState(TRUE, mouseDown, touchActive)
         /\ UNCHANGED << mouseDown, touchActive >>

\* GameScene.onSpaceUp: what it does to inputState and the NoiseMeter
onSpaceUp ==
    /\ spaceDown' = FALSE
    /\ updateNoiseCancelState(FALSE, mouseDown, touchActive)
    /\ UNCHANGED << mouseDown, touchActive >>

\* GameScene.startNoiseCancel: what it does to inputState and the NoiseMeter
startNoiseCancel ==
    IF gameState # GameState.PLAYING
    THEN UNCHANGED inputVars
    ELSE /\ mouseDown' = TRUE
         /\ updateNoiseCancelState(spaceDown, TRUE, touchActive)
         /\ UNCHANGED << spaceDown, touchActive >>

\* GameScene.stopNoiseCancel: what it does to inputState and the NoiseMeter
stopNoiseCancel ==
    /\ mouseDown' = FALSE
    /\ updateNoiseCancelState(spaceDown, FALSE, touchActive)
    /\ UNCHANGED << spaceDown, touchActive >>

\* GameScene.onSpaceDown (keydown-SPACE)
OnSpaceDown ==
    /\ onSpaceDown
    /\ UNCHANGED << sceneVars, noiseVars, tvVars, powerUpVars, sourceVars,
                    frames, ticks, trackVars, restVars >>

\* GameScene.onSpaceUp (keyup-SPACE)
OnSpaceUp ==
    /\ onSpaceUp
    /\ UNCHANGED << sceneVars, noiseVars, tvVars, powerUpVars, sourceVars,
                    frames, ticks, trackVars, restVars >>

\* GameScene.startNoiseCancel (pointerdown on the mute button)
StartNoiseCancel ==
    /\ startNoiseCancel
    /\ UNCHANGED << sceneVars, noiseVars, tvVars, powerUpVars, sourceVars,
                    frames, ticks, trackVars, restVars >>

\* GameScene.stopNoiseCancel (pointerup, pointerupoutside)
StopNoiseCancel ==
    /\ stopNoiseCancel
    /\ UNCHANGED << sceneVars, noiseVars, tvVars, powerUpVars, sourceVars,
                    frames, ticks, trackVars, restVars >>

\* togglePause whose second branch is a plain else
TogglePause_resumesAny ==
    /\ gameState' = IF gameState = GameState.PLAYING THEN GameState.PAUSED
                    ELSE GameState.PLAYING
    /\ UNCHANGED << lvl, gameTimer, perfectSleep, inputVars, noiseVars, tvVars,
                    powerUpVars, sourceVars, frames, ticks, trackVars, restVars >>

\* GameScene.togglePause
TogglePause ==
    /\ gameState' = IF gameState = GameState.PLAYING THEN GameState.PAUSED
                    ELSE IF gameState = GameState.PAUSED THEN GameState.PLAYING
                    ELSE gameState
    /\ UNCHANGED << lvl, gameTimer, perfectSleep, inputVars, noiseVars, tvVars,
                    powerUpVars, sourceVars, frames, ticks, trackVars, restVars >>

\* ---------------------------------------------------------------------------
\* Television: the two delayed calls and the two transition tweens.  The
\* delay of a turn-on timer is Phaser.Math.Between(minDelay, maxDelay), any
\* integer of the range: tvSchedule holds the range it is drawn from.  Every
\* range starts above 0, so `tvState.turnOnDelay === 0` holds exactly while
\* no delay was drawn yet (draws = 0).
\* ---------------------------------------------------------------------------
\* the class field `tvConfig` before Television.configure is called
defaultTvConfig == TvConfig(TV_INITIAL_DELAY_MIN, TV_INITIAL_DELAY_MAX,
                            TV_SUBSEQUENT_DELAY_MIN, TV_SUBSEQUENT_DELAY_MAX,
                            TV_ACTIVE_DURATION_MIN, TV_ACTIVE_DURATION_MAX)

\* Television.configure: `config.x || GAMEPLAY.X` for each of the six fields
Television_configure(config) ==
    [f \in DOMAIN defaultTvConfig |-> IF config[f] # 0 THEN config[f] ELSE defaultTvConfig[f]]

\* a Television whose constructor has not yet run scheduleNextActivation:
\* turnOnDelay 0, no timer.  draws counts the delays drawn (2 for 2 or more),
\* pending the turn-on timers that are scheduled and have not fired.
NoSchedule == [draws |-> 0, minDelay |-> 0, maxDelay |-> 0, pending |-> 0]

\* scheduleNextActivation drawing every delay from the initial range
scheduleNextActivation_initialOnly(sched, config) ==
    [draws |-> Min(sched.draws + 1, 2),
     minDelay |-> config.initialDelayMin,
     maxDelay |-> config.initialDelayMax,
     pending |-> 1]

\* Television.scheduleNextActivation with this.tvConfig = config: the old
\* turn-on timer is destroyed, the range is chosen by turnOnDelay === 0, the
\* new timer is scheduled
scheduleNextActivation(sched, config) ==
    [draws |-> Min(sched.draws + 1, 2),
     minDelay |-> IF sched.draws = 0 THEN config.initialDelayMin ELSE config.subsequentDelayMin,
     maxDelay |-> IF sched.draws = 0 THEN config.initialDelayMax ELSE config.subsequentDelayMax,
     pending |-> 1]

\* `new Television(...)` followed by `television.configure(config)` in
\* GameScene.createEntities: the constructor runs scheduleNextActivation
\* while tvConfig is still the class field's initial value; configure only
\* assigns tvConfig
NewTelevision(config) == scheduleNextActivation(NoSchedule, defaultTvConfig)

\* the turnOnTimer of scheduleNextActivation fires: Television.turnOn
TurnOn ==
    /\ turnOnTimer
    /\ turnOnTimer' = FALSE
    /\ tvSchedule' = [tvSchedule EXCEPT !.pending = @ - 1]
    /\ tvState' = IF tvState # TVState.OFF THEN tvState ELSE TVState.TURNING_ON
    /\ UNCHANGED << tvIsOn, tvNoiseLevel, turnOffTimer >>
    /\ UNCHANGED << sceneVars, inputVars, noiseVars, powerUpVars, sourceVars,
                    frames, ticks, trackVars, restVars >>

\* onComplete of the tween started by turnOn; scheduleDeactivation
TurnOnComplete ==
    /\ tvState = TVState.TURNING_ON
    /\ tvState' = TVState.ON
    /\ tvIsOn' = TRUE
    /\ tvNoiseLevel' = NOISE_INCREASE_RATE
    /\ turnOffTimer' = TRUE
    /\ UNCHANGED << turnOnTimer, tvSchedule >>
    /\ UNCHANGED << sceneVars, inputVars, noiseVars, powerUpVars, sourceVars,
                    frames, ticks, trackVars, restVars >>

\* the turnOffTimer of scheduleDeactivation fires: Television.turnOff
TurnOff ==
    /\ turnOffTimer
    /\ turnOffTimer' = FALSE
    /\ tvState' = IF tvState # TVState.ON THEN tvState ELSE TVState.TURNING_OFF
    /\ UNCHANGED << tvIsOn, tvNoiseLevel, turnOnTimer, tvSchedule >>
    /\ UNCHANGED << sceneVars, inputVars, noiseVars, powerUpVars, sourceVars,
                    frames, ticks, trackVars, restVars >>

\* onComplete of the tween started by turnOff; scheduleNextActivation
TurnOffComplete ==
    /\ tvState = TVState.TURNING_OFF
    /\ tvState' = TVState.OFF
    /\ tvIsOn' = FALSE
    /\ tvNoiseLevel' = 0
    /\ turnOnTimer' = TRUE
    /\ tvSchedule' = scheduleNextActivation(tvSchedule, Television_configure(currentLevel.tvConfig))
    /\ UNCHANGED turnOffTimer
    /\ UNCHANGED << sceneVars, inputVars, noiseVars, powerUpVars, sourceVars,
                    frames, ticks, trackVars, restVars >>

\* Television.turnOn called by other code than the timer (the method is public)
CallTurnOn ==
    /\ tvState' = IF tvState # TVState.OFF THEN tvState ELSE TVState.TURNING_ON
    /\ UNCHANGED << tvIsOn, tvNoiseLevel, turnOnTimer, turnOffTimer, tvSchedule >>
    /\ UNCHANGED << sceneVars, inputVars, noiseVars, powerUpVars, sourceVars,
                    frames, ticks, trackVars, restVars >>

\* turnOff without the `currentState !== ON` guard
CallTurnOff_unguarded ==
    /\ tvState' = TVState.TURNING_OFF
    /\ UNCHANGED << tvIsOn, tvNoiseLevel, turnOnTimer, turnOffTimer, tvSchedule >>
    /\ UNCHANGED << sceneVars, inputVars, noiseVars, powerUpVars, sourceVars,
                    frames, ticks, trackVars, restVars >>

\* Television.turnOff called by other code than the timer (the method is public)
CallTurnOff ==
    /\ tvState' = IF tvState # TVState.ON THEN tvState ELSE TVState.TURNING_OFF
    /\ UNCHANGED << tvIsOn, tvNoiseLevel, turnOnTimer, turnOffTimer, tvSchedule >>
    /\ UNCHANGED << sceneVars, inputVars, noiseVars, powerUpVars, sourceVars,
                    frames, ticks, trackVars, restVars >>

\* ---------------------------------------------------------------------------
\* Power-ups: the spawn timer and the click on a spawned power-up
\* ---------------------------------------------------------------------------
\* spawnRandomPowerUp choosing among all the types of the level
availableTypes_ignoresCooldown == currentLevel.availablePowerUps

\* the types spawnRandomPowerUp chooses from
availableTypes ==
    {type \in currentLevel.availablePowerUps :
        type \notin DOMAIN powerUpCooldowns \/ powerUpCooldowns[type] <= 0}

\* the timer of GameScene.startPowerUpSpawning fires:
\* PowerUpManager.spawnRandomPowerUp with randomType = type
SpawnRandomPowerUp(type) ==
    /\ currentLevel.availablePowerUps # {}
    /\ spawns < MaxSpawns /\ Steps < MaxSteps
    /\ type \in availableTypes
    /\ spawns' = spawns + 1
    /\ spawnedPowerUps' = spawnedPowerUps \cup {type}
    /\ powerUpCooldowns' =
         [t \in DOMAIN powerUpCooldowns \cup {type} |->
            IF t = type THEN getPowerUpConfig(type).cooldown ELSE powerUpCooldowns[t]]
    /\ UNCHANGED activePowerUps
    /\ UNCHANGED << sceneVars, inputVars, noiseVars, tvVars, sourceVars,
                    frames, ticks, trackVars, restVars >>

\* PowerUp.collect (pointerdown on the sprite): POWERUP_COLLECTED goes to
\* PowerUpManager.onPowerUpCollected (activatePowerUp) and to
\* GameScene.onPowerUpCollected.  The entity is destroyed by the callback of
\* the camera flash, not here: until then it stays on screen and interactive.
Collect(type) ==
    /\ type \in spawnedPowerUps
    /\ activePowerUps' = activatePowerUp(activePowerUps, type)
    /\ flashing' = flashing \cup {type}
    /\ activation' = [type |-> type,
                      returned |-> activatePowerUp_outcome(activePowerUps, type).returned,
                      emitted |-> activatePowerUp_outcome(activePowerUps, type).emitted]
    /\ UNCHANGED << powerUpCooldowns, spawns, spawnedPowerUps >>
    /\ UNCHANGED << sceneVars, inputVars, noiseVars, tvVars, sourceVars,
                    frames, ticks, trackVars, outerVars >>

\* the callback of the flash started by PowerUp.collect, at progress >= 1:
\* PowerUp.destroy
FlashComplete(type) ==
    /\ type \in flashing
    /\ flashing' = flashing \ {type}
    /\ spawnedPowerUps' = spawnedPowerUps \ {type}
    /\ UNCHANGED << activePowerUps, powerUpCooldowns, spawns, activation >>
    /\ UNCHANGED << sceneVars, inputVars, noiseVars, tvVars, sourceVars,
                    frames, ticks, trackVars, outerVars >>

\* ---------------------------------------------------------------------------
\* Ambient sources: the delayed call of NoiseSourceManager.createNoiseSources
\* ---------------------------------------------------------------------------
CreateNoiseSource(id) ==
    /\ id \in pendingSources
    /\ Len(noiseSources) < MaxSources /\ Steps < MaxSteps
    /\ pendingSources' = pendingSources \ {id}
    /\ noiseSources' = Append(noiseSources, id)
    /\ UNCHANGED activeSources
    /\ UNCHANGED << sceneVars, inputVars, noiseVars, tvVars, powerUpVars,
                    frames, ticks, trackVars, restVars >>

\* ---------------------------------------------------------------------------
\* Initial states: a round at a frame boundary.  GameScene.init and create
\* give countdown = duration and level 0; the other start values are states
\* of a round in progress that frames and ticks lead to, taken as starting
\* points so that the end of the countdown and the upper half of the meter
\* are within the explored depth.
\* ---------------------------------------------------------------------------
\* countdown ticks left in a round observed near its end
NearEndTicks == 2

\* the (countdown, meter level) pairs a round is observed at
StartPoints(level) ==
    { << getLevelConfig(level).duration, 0 >>,
      << NearEndTicks * TIMER_UPDATE_INTERVAL, 50 * UNIT >>,
      << NearEndTicks * TIMER_UPDATE_INTERVAL, 99 * UNIT >> }

SourceIds(level) ==
    {getLevelConfig(level).noiseSources[i].id : i \in DOMAIN getLevelConfig(level).noiseSources}

\* the progress of a player who won each level below `level` once, with the
\* score given, and the storage it was saved to
ProgressUpTo(level, score) ==
    [l \in 1..(level - 1) |->
        [completed |-> TRUE, bestScore |-> score, attempts |-> 1,
         stats |-> [timeRemaining |-> 0, perfectSleep |-> score >= 500]]]

OkStorage(unlocked, progress) ==
    saveProgress(unlocked, progress, [access |-> "ok", item |-> NoItem])

\* the schedule of a Television that has been on before: with NearEndTicks
\* intervals left on the countdown the first delay and the first active
\* period are over
LaterSchedule(config) ==
    scheduleNextActivation(NewTelevision(config), Television_configure(config))

\* no NoiseSource constructed yet, the scene clock (scene.time.now) at 0.
\* starts and stops count the NOISE_SOURCE_START and NOISE_SOURCE_STOP events
\* of the source, activatedAt is the clock at its last activate(), early tells
\* that an activate() scheduled the next activation before its own end time
NoNoiseSource ==
    [id |-> "none", isActive |-> FALSE, nextActivationTime |-> 0,
     currentEventEndTime |-> 0, now |-> 0, starts |-> 0, stops |-> 0,
     activatedAt |-> -1, early |-> FALSE]

\* no call observed yet: op is the handler or method called last, levelId its
\* argument, returned and emitted describe its call of setCurrentLevel, n
\* counts the calls
NoLevelCall ==
    [n |-> 0, op |-> "none", levelId |-> 0, returned |-> FALSE, emitted |-> FALSE]

\* new EventBus(): no subscriptions.  events maps an event name to the
\* array of its callbacks; calls counts the calls of on, off and emit; op and
\* event are the last call, delivered the callbacks its emit ran, in order,
\* escaped whether an exception left that emit
NewEventBus ==
    [events |-> << >>, calls |-> 0, op |-> "none", event |-> "none",
     delivered |-> << >>, escaped |-> FALSE]

\* a round in progress on level lvl, observed at one of the (countdown,
\* meter level) pairs given
RoundInitAt(points) ==
    /\ gameState = GameState.PLAYING
    /\ \E p \in points : gameTimer = p[1] /\ meterLevel = p[2]
    /\ spaceDown = FALSE /\ mouseDown = FALSE /\ touchActive = FALSE
    /\ isNoiseCancelActive = FALSE
    /\ meterIsActive = FALSE
    /\ bearNoise = meterLevel
    /\ bearState = TierOf(getNoisePercentage(bearNoise))
    /\ perfectSleep = (bearState = BearState.SLEEPING)
    /\ tvState = TVState.OFF /\ tvIsOn = FALSE /\ tvNoiseLevel = 0
    /\ turnOnTimer = TRUE /\ turnOffTimer = FALSE
    /\ tvSchedule = IF gameTimer = getLevelConfig(lvl).duration
                    THEN NewTelevision(getLevelConfig(lvl).tvConfig)
                    ELSE LaterSchedule(getLevelConfig(lvl).tvConfig)
    /\ activePowerUps = << >>
    /\ powerUpCooldowns = << >>
    /\ spawnedPowerUps = {}
    /\ noiseSources = ImmediateSources(getLevelConfig(lvl).noiseSources, 1)
    /\ activeSources = {}
    /\ pendingSources = {id \in SourceIds(lvl) :
                            \A i \in DOMAIN noiseSources : noiseSources[i] # id}
    /\ frames = 0 /\ ticks = 0 /\ spawns = 0
    /\ wakeUps = 0
    /\ gameOvers = 0
    /\ riseMs = -1 /\ fallMs = -1 /\ fallBase = 0
    /\ flashing = {}
    /\ activation = [type |-> "none", returned |-> FALSE, emitted |-> FALSE]
    /\ meterEvent = [n |-> 0, op |-> "none", old |-> 0, amount |-> 0, emitted |-> FALSE,
                     level |-> 0, percentage |-> 0, isIncreasing |-> FALSE]
    /\ currentScore = IF gameTimer = getLevelConfig(lvl).duration
                      THEN 0 ELSE updateScore(gameTimer, perfectSleep)
    /\ listeners = 1
    /\ rounds = 0
    /\ loadError = FALSE
    /\ roundStart = [unlockedLevels |-> unlockedLevels, levelProgress |-> levelProgress]
    /\ managerCall = [n |-> 0, op |-> "none", type |-> "none", delta |-> 0,
                      returned |-> FALSE, emitted |-> FALSE, error |-> "none",
                      expired |-> {}, gap |-> -1]
    /\ sinceSpawn = << >>
    /\ rawInput = [key |-> FALSE, pointer |-> FALSE]
    /\ cancelTrace = [emitted |-> "none", called |-> "none", before |-> "none"]
    /\ source = NoNoiseSource
    /\ bus = NewEventBus
    /\ managerLevel = lvl
    /\ levelCall = NoLevelCall
    /\ activeScene = "GameScene"

\* a round in progress on level lvl, observed at one of the StartPoints
RoundInit == RoundInitAt(StartPoints(lvl))

\* a round in progress on one of the PlayedLevels, reached by winning the
\* levels below it
Init ==
    /\ lvl \in PlayedLevels
    /\ storage = OkStorage(1..lvl, ProgressUpTo(lvl, 800))
    /\ unlockedLevels = NewLevelManager(storage).unlockedLevels
    /\ levelProgress = NewLevelManager(storage).levelProgress
    /\ RoundInit

Next ==
    \/ \E delta \in Deltas : \E due \in SUBSET {noiseSources[i] : i \in DOMAIN noiseSources} :
          Update(delta, due)
    \/ UpdateGameTimer
    \/ OnSpaceDown
    \/ OnSpaceUp
    \/ StartNoiseCancel
    \/ StopNoiseCancel
    \/ TogglePause
    \/ TurnOn
    \/ TurnOnComplete
    \/ TurnOff
    \/ TurnOffComplete
    \/ \E type \in PowerUpTypes : SpawnRandomPowerUp(type)
    \/ \E type \in PowerUpTypes : Collect(type)
    \/ \E type \in PowerUpTypes : FlashComplete(type)
    \/ \E id \in pendingSources : CreateNoiseSource(id)

Spec == Init /\ [][Next]_vars

\* ---------------------------------------------------------------------------
\* Sessions: rounds of a level played one after the other, and page loads
\* ---------------------------------------------------------------------------
MaxRounds == 1
SessionLevels == {1, 3, 6}

\* localStorage as a page load finds it
SessionStorages ==
    { [access |-> "undefined", item |-> NoItem],
      [access |-> "throws", item |-> NoItem],
      [access |-> "ok", item |-> NoItem],
      [access |-> "ok", item |-> CorruptItem],
      OkStorage(1..3, ProgressUpTo(3, 800)),
      OkStorage(1..4, ProgressUpTo(4, 300)),
      OkStorage(1..6, ProgressUpTo(7, 800)) }

\* GameScene.init and GameScene.create on the level given: the scene's fields
\* are reset and the entities and managers are created anew
StartRound(level) ==
    /\ lvl' = level
    /\ gameState' = GameState.PLAYING
    /\ gameTimer' = getLevelConfig(level).duration
    /\ spaceDown' = FALSE /\ mouseDown' = FALSE /\ touchActive' = FALSE
    /\ isNoiseCancelActive' = FALSE
    /\ meterIsActive' = FALSE
    /\ perfectSleep' = TRUE
    /\ currentScore' = 0
    /\ meterLevel' = 0
    /\ bearNoise' = 0
    /\ bearState' = BearState.SLEEPING
    /\ tvState' = TVState.OFF /\ tvIsOn' = FALSE /\ tvNoiseLevel' = 0
    /\ turnOnTimer' = TRUE /\ turnOffTimer' = FALSE
    /\ tvSchedule' = NewTelevision(getLevelConfig(level).tvConfig)
    /\ activePowerUps' = << >>
    /\ powerUpCooldowns' = << >>
    /\ spawnedPowerUps' = {}
    /\ flashing' = {}
    /\ noiseSources' = ImmediateSources(getLevelConfig(level).noiseSources, 1)
    /\ activeSources' = {}
    /\ pendingSources' = {id \in SourceIds(level) :
                             \A i \in DOMAIN noiseSources' : noiseSources'[i] # id}
    /\ frames' = 0 /\ ticks' = 0 /\ spawns' = 0
    /\ wakeUps' = 0
    /\ gameOvers' = 0
    /\ riseMs' = -1 /\ fallMs' = -1 /\ fallBase' = 0
    /\ activation' = [type |-> "none", returned |-> FALSE, emitted |-> FALSE]

\* `this.scene.restart()` of the Replay and Try Again buttons, or
\* `scene.start(SCENES.GAME)` after the round was left for a menu: init and
\* create run again on the same GameScene.  Nothing calls GameScene.shutdown,
\* so eventBus.clear() does not run and setupEventListeners adds one more
\* registration of every handler to the global eventBus.
Restart ==
    /\ rounds < MaxRounds
    /\ rounds' = rounds + 1
    /\ StartRound(lvl)
    /\ listeners' = listeners + 1
    /\ roundStart' = [unlockedLevels |-> unlockedLevels, levelProgress |-> levelProgress]
    /\ UNCHANGED << levelVars, loadError, meterEvent, harnessVars >>

\* the page is loaded again and a round of an unlocked level is started: a
\* new eventBus, a new LevelManager (its constructor calls loadProgress), a
\* new GameScene
Reload(level) ==
    /\ rounds < MaxRounds
    /\ rounds' = rounds + 1
    /\ unlockedLevels' = NewLevelManager(storage).unlockedLevels
    /\ levelProgress' = NewLevelManager(storage).levelProgress
    /\ loadError' = NewLevelManager(storage).error
    /\ level \in unlockedLevels'
    /\ StartRound(level)
    /\ listeners' = 1
    /\ roundStart' = [unlockedLevels |-> unlockedLevels', levelProgress |-> levelProgress']
    /\ UNCHANGED << storage, meterEvent, harnessVars >>

InitSession ==
    /\ storage \in SessionStorages
    /\ unlockedLevels = NewLevelManager(storage).unlockedLevels
    /\ levelProgress = NewLevelManager(storage).levelProgress
    /\ lvl \in SessionLevels \cap unlockedLevels
    /\ RoundInit

NextSession ==
    \/ \E delta \in Deltas : \E due \in SUBSET {noiseSources[i] : i \in DOMAIN noiseSources} :
          Update(delta, due)
    \/ UpdateGameTimer
    \/ TogglePause
    \/ TurnOn
    \/ TurnOnComplete
    \/ Restart
    \/ \E level \in SessionLevels : Reload(level)

SpecSession == InitSession /\ [][NextSession]_vars

\* ---------------------------------------------------------------------------
\* The NoiseMeter called directly: addNoise and reduceNoise with amounts drawn
\* from MeterAmounts, the subscribers of METER_UPDATE reacting
\* ---------------------------------------------------------------------------
MaxCalls == 3
MeterAmounts == {0, UNIT, 60 * UNIT}

\* NoiseMeter.addNoise(amount)
MeterAdd(amount) ==
    /\ meterEvent.n < MaxCalls
    /\ SetSim(NoiseMeter_addNoise(Sim, amount))
    /\ meterEvent' = [n |-> meterEvent.n + 1, op |-> "add", old |-> meterLevel,
                      amount |-> amount] @@ NoiseMeter_addNoise_event(meterLevel, amount)
    /\ UNCHANGED << lvl, gameTimer, inputVars, tvVars, powerUpVars, sourceVars,
                    frames, ticks, trackVars, collectVars, currentScore,
                    loadError, listeners, rounds, roundStart, harnessVars >>

\* NoiseMeter.reduceNoise(amount)
MeterReduce(amount) ==
    /\ meterEvent.n < MaxCalls
    /\ SetSim(NoiseMeter_reduceNoise(Sim, amount))
    /\ meterEvent' = [n |-> meterEvent.n + 1, op |-> "reduce", old |-> meterLevel,
                      amount |-> amount] @@ NoiseMeter_reduceNoise_event(meterLevel, amount)
    /\ UNCHANGED << lvl, gameTimer, inputVars, tvVars, powerUpVars, sourceVars,
                    frames, ticks, trackVars, collectVars, currentScore,
                    loadError, listeners, rounds, roundStart, harnessVars >>

NextMeter ==
    \/ \E amount \in MeterAmounts : MeterAdd(amount)
    \/ \E amount \in MeterAmounts : MeterReduce(amount)

SpecMeter == Init /\ [][NextMeter]_vars

\* ---------------------------------------------------------------------------
\* The Television with its public methods called at any moment, and the frames
\* ---------------------------------------------------------------------------
NextTV ==
    \/ TurnOn
    \/ TurnOnComplete
    \/ TurnOff
    \/ TurnOffComplete
    \/ CallTurnOn
    \/ CallTurnOff
    \/ \E delta \in Deltas : \E due \in SUBSET {noiseSources[i] : i \in DOMAIN noiseSources} :
          Update(delta, due)

SpecTV == Init /\ [][NextTV]_vars

\* ---------------------------------------------------------------------------
\* The PowerUpManager with its public methods called at any moment:
\* activatePowerUp with any string as type, update with the deltas of
\* ManagerDeltas, spawnRandomPowerUp
\* ---------------------------------------------------------------------------
MaxManagerCalls == 4
ManagerDeltas == {5000, 15000}

\* a string that is not a PowerUpType
UnknownType == "unknown_type"

\* PowerUpManager.activatePowerUp(type)
PM_Activate(type) ==
    /\ managerCall.n < MaxManagerCalls
    /\ activePowerUps' = activatePowerUp(activePowerUps, type)
    /\ managerCall' = [n |-> managerCall.n + 1, op |-> "activate", type |-> type,
                       delta |-> 0, expired |-> {}, gap |-> -1]
                          @@ activatePowerUp_outcome(activePowerUps, type)
    /\ UNCHANGED << powerUpCooldowns, spawnedPowerUps, spawns, sinceSpawn >>
    /\ UNCHANGED << sceneVars, inputVars, noiseVars, tvVars, sourceVars, frames, ticks,
                    trackVars, collectVars, currentScore, levelVars,
                    meterEvent, loadError, listeners, rounds, roundStart,
                    rawInput, cancelTrace, probeVars >>

\* the POWERUP_EXPIRED events of PowerUpManager.update(delta): one from
\* ActivePowerUp.expire of each power-up whose remainingDuration reaches 0
expiredBy(active, delta) == {t \in DOMAIN active : active[t] - delta <= 0}

\* PowerUpManager.update(delta)
PM_Update(delta) ==
    /\ managerCall.n < MaxManagerCalls
    /\ activePowerUps' = updateActivePowerUps(activePowerUps, delta)
    /\ powerUpCooldowns' = updateCooldowns(powerUpCooldowns, delta)
    /\ managerCall' = [n |-> managerCall.n + 1, op |-> "update", type |-> "none",
                       delta |-> delta, returned |-> FALSE, emitted |-> FALSE,
                       error |-> "none", expired |-> expiredBy(activePowerUps, delta),
                       gap |-> -1]
    /\ sinceSpawn' = [t \in DOMAIN sinceSpawn |-> sinceSpawn[t] + delta]
    /\ UNCHANGED << spawnedPowerUps, spawns >>
    /\ UNCHANGED << sceneVars, inputVars, noiseVars, tvVars, sourceVars, frames, ticks,
                    trackVars, collectVars, currentScore, levelVars,
                    meterEvent, loadError, listeners, rounds, roundStart,
                    rawInput, cancelTrace, probeVars >>

\* PowerUpManager.spawnRandomPowerUp() with randomType = type
PM_Spawn(type) ==
    /\ managerCall.n < MaxManagerCalls
    /\ currentLevel.availablePowerUps # {}
    /\ type \in availableTypes
    /\ spawnedPowerUps' = spawnedPowerUps \cup {type}
    /\ powerUpCooldowns' =
         [t \in DOMAIN powerUpCooldowns \cup {type} |->
            IF t = type THEN getPowerUpConfig(type).cooldown ELSE powerUpCooldowns[t]]
    /\ managerCall' = [n |-> managerCall.n + 1, op |-> "spawn", type |-> type,
                       delta |-> 0, returned |-> FALSE, emitted |-> FALSE,
                       error |-> "none", expired |-> {},
                       gap |-> IF type \in DOMAIN sinceSpawn THEN sinceSpawn[type] ELSE -1]
    /\ sinceSpawn' = [t \in DOMAIN sinceSpawn \cup {type} |->
                        IF t = type THEN 0 ELSE sinceSpawn[t]]
    /\ UNCHANGED << activePowerUps, spawns >>
    /\ UNCHANGED << sceneVars, inputVars, noiseVars, tvVars, sourceVars, frames, ticks,
                    trackVars, collectVars, currentScore, levelVars,
                    meterEvent, loadError, listeners, rounds, roundStart,
                    rawInput, cancelTrace, probeVars >>

NextPowerUps ==
    \/ \E type \in PowerUpTypes \cup {UnknownType} : PM_Activate(type)
    \/ \E delta \in ManagerDeltas : PM_Update(delta)
    \/ \E type \in PowerUpTypes : PM_Spawn(type)

SpecPowerUps == Init /\ [][NextPowerUps]_vars

\* ---------------------------------------------------------------------------
\* A round followed to its end: the countdown timer event keeps firing, the
\* player pauses and resumes at will, frames and the TV go on within their
\* bounds.  The looping timer event of startGameTimer belongs to the scene's
\* clock, which runs while the scene does: the tick is weakly fair, and so is
\* the resume of a paused round.
\* ---------------------------------------------------------------------------
\* updateGameTimer that stops counting one interval before the end
CountdownTick_stalls ==
    /\ gameState = GameState.PLAYING
    /\ gameTimer' = Max(gameTimer - TIMER_UPDATE_INTERVAL, TIMER_UPDATE_INTERVAL)
    /\ currentScore' = updateScore(gameTimer', perfectSleep)
    /\ UNCHANGED << lvl, gameState, perfectSleep, noiseVars, levelVars >>
    /\ UNCHANGED << inputVars, tvVars, powerUpVars, sourceVars, frames, ticks, trackVars,
                    collectVars, fixedVars >>

\* GameScene.updateGameTimer while Playing, any number of times
CountdownTick ==
    /\ gameState = GameState.PLAYING
    /\ IF gameTimer - TIMER_UPDATE_INTERVAL <= 0
       THEN /\ gameTimer' = 0
            /\ SetSim(checkVictoryCondition([Sim EXCEPT !.gameTimer = 0]))
       ELSE /\ gameTimer' = gameTimer - TIMER_UPDATE_INTERVAL
            /\ UNCHANGED << gameState, perfectSleep, noiseVars, levelVars >>
    /\ currentScore' = updateScore(gameTimer', perfectSleep')
    /\ UNCHANGED lvl
    /\ UNCHANGED << inputVars, tvVars, powerUpVars, sourceVars, frames, ticks, trackVars,
                    collectVars, fixedVars >>

\* GameScene.togglePause, second branch
Resume == gameState = GameState.PAUSED /\ TogglePause

\* a round with NearEndTicks intervals left on the countdown
InitLive == Init /\ gameTimer = NearEndTicks * TIMER_UPDATE_INTERVAL

NextLive ==
    \/ CountdownTick
    \/ TogglePause
    \/ \E delta \in Deltas : \E due \in SUBSET {noiseSources[i] : i \in DOMAIN noiseSources} :
          Update(delta, due)
    \/ TurnOn
    \/ TurnOnComplete

SpecLive ==
    InitLive /\ [][NextLive]_vars /\ WF_vars(CountdownTick) /\ WF_vars(Resume)

\* ---------------------------------------------------------------------------
\* The player's hands: the space key and the pointer on the mute button go
\* down and up at any moment, Playing or not, and the handlers bound in
\* setupInputHandlers and createUI run on each signal.  A held key repeats
\* its keydown.  The round is paused and resumed at will and ends by the
\* countdown.
\* ---------------------------------------------------------------------------
\* everything but inputState, the NoiseMeter's isActive and the observers
worldVars == << sceneVars, noiseVars, tvVars, powerUpVars, sourceVars, frames, ticks,
                trackVars, collectVars, currentScore, levelVars,
                meterEvent, loadError, listeners, rounds, roundStart >>

\* the observer after a handler that emitted and called what `event` says
\* (nothing if the handler returned before updateNoiseCancelState)
Traced(event) ==
    [emitted |-> event.emitted, called |-> event.called,
     before |-> IF cancelTrace.emitted # "none" THEN cancelTrace.emitted
                ELSE cancelTrace.before]

NoEvent == [emitted |-> "none", called |-> "none"]

\* keydown-SPACE
KeyDown ==
    /\ rawInput' = [rawInput EXCEPT !.key = TRUE]
    /\ onSpaceDown
    /\ cancelTrace' = Traced(IF gameState # GameState.PLAYING THEN NoEvent
                             ELSE updateNoiseCancelState_event(isNoiseCancelActive,
                                      TRUE, mouseDown, touchActive))
    /\ UNCHANGED << worldVars, managerCall, sinceSpawn, probeVars >>

\* keyup-SPACE
KeyUp ==
    /\ rawInput.key
    /\ rawInput' = [rawInput EXCEPT !.key = FALSE]
    /\ onSpaceUp
    /\ cancelTrace' = Traced(updateNoiseCancelState_event(isNoiseCancelActive,
                                 FALSE, mouseDown, touchActive))
    /\ UNCHANGED << worldVars, managerCall, sinceSpawn, probeVars >>

\* pointerdown on the mute button
PointerDown ==
    /\ ~rawInput.pointer
    /\ rawInput' = [rawInput EXCEPT !.pointer = TRUE]
    /\ startNoiseCancel
    /\ cancelTrace' = Traced(IF gameState # GameState.PLAYING THEN NoEvent
                             ELSE updateNoiseCancelState_event(isNoiseCancelActive,
                                      spaceDown, TRUE, touchActive))
    /\ UNCHANGED << worldVars, managerCall, sinceSpawn, probeVars >>

\* pointerup or pointerupoutside of the mute button
PointerUp ==
    /\ rawInput' = [rawInput EXCEPT !.pointer = FALSE]
    /\ stopNoiseCancel
    /\ cancelTrace' = Traced(updateNoiseCancelState_event(isNoiseCancelActive,
                                 spaceDown, FALSE, touchActive))
    /\ UNCHANGED << worldVars, managerCall, sinceSpawn, probeVars >>

NextInput ==
    \/ KeyDown
    \/ KeyUp
    \/ PointerDown
    \/ PointerUp
    \/ TogglePause
    \/ CountdownTick

SpecInput == InitLive /\ [][NextInput]_vars

\* ---------------------------------------------------------------------------
\* The last ticks of a round whose bear is still asleep, the meter just below
\* the DROWSY threshold: frames with the TV on change the bear's tier between
\* two ticks of the countdown
\* ---------------------------------------------------------------------------
\* the (countdown, meter level) pair such a round is observed at
ScorePoints == { << NearEndTicks * TIMER_UPDATE_INTERVAL, 49 * UNIT >> }

InitScore ==
    /\ lvl \in PlayedLevels
    /\ storage = OkStorage(1..lvl, ProgressUpTo(lvl, 800))
    /\ unlockedLevels = NewLevelManager(storage).unlockedLevels
    /\ levelProgress = NewLevelManager(storage).levelProgress
    /\ RoundInitAt(ScorePoints)

NextScore ==
    \/ CountdownTick
    \/ \E delta \in Deltas : \E due \in SUBSET {noiseSources[i] : i \in DOMAIN noiseSources} :
          Update(delta, due)
    \/ TurnOn
    \/ TurnOnComplete
    \/ TogglePause
    \/ OnSpaceDown
    \/ OnSpaceUp

SpecScore == InitScore /\ [][NextScore]_vars

\* ---------------------------------------------------------------------------
\* One NoiseSource on the scene clock: its constructor, its update at the
\* clock times the frames fall on, forceActivate.  Math.random() is a draw
\* from RandomDraws, in hundredths.
\* ---------------------------------------------------------------------------
MaxClock == 130000
ClockDeltas == {5000, 20000}
RandomDraws == {0, 50, 99}
SourceLevels == {4, 5, 6}

\* the delay NoiseSource.scheduleNextActivation computes; config.frequency
\* is in tenths of events per minute
activationDelay(config, r) ==
    CASE config.pattern = "random" -> ((600000 \div config.frequency) * (50 + r)) \div 100
      [] config.pattern = "scheduled" -> 600000 \div config.frequency
      [] config.pattern = "reactive" -> 30000
      [] config.pattern = "continuous" -> 2000 + (r * 3000) \div 100
      [] OTHER -> 0

\* NoiseSource.scheduleNextActivation with Math.random() = r / 100
NoiseSource_scheduleNextActivation(src, config, r) ==
    [src EXCEPT !.nextActivationTime = src.now + activationDelay(config, r)]

\* the duration NoiseSource.activate draws: config.duration +
\* (Math.random() * 2000 - 1000)
eventDuration(config, r) == config.duration + ((r * 2000) \div 100 - 1000)

\* NoiseSource.activate with the draws rj (duration) and rd (next delay);
\* emits NOISE_SOURCE_START
NoiseSource_activate(src, config, rj, rd) ==
    LET a == [src EXCEPT !.isActive = TRUE,
                         !.currentEventEndTime = src.now + eventDuration(config, rj),
                         !.starts = @ + 1,
                         !.activatedAt = src.now]
        b == NoiseSource_scheduleNextActivation(a, config, rd)
    IN [b EXCEPT !.early = @ \/ b.nextActivationTime < b.currentEventEndTime]

\* NoiseSource.deactivate; emits NOISE_SOURCE_STOP
NoiseSource_deactivate(src) ==
    [src EXCEPT !.isActive = FALSE, !.stops = @ + 1]

\* NoiseSource.update whose activation check leaves out `&& !this.isActive`
NoiseSource_update_reactivates(src, config, time, rj, rd) ==
    LET a == IF time >= src.nextActivationTime
             THEN NoiseSource_activate(src, config, rj, rd) ELSE src
    IN IF a.isActive /\ time >= a.currentEventEndTime
       THEN NoiseSource_deactivate(a) ELSE a

\* NoiseSource.update(time, _delta)
NoiseSource_update(src, config, time, rj, rd) ==
    LET a == IF time >= src.nextActivationTime /\ ~src.isActive
             THEN NoiseSource_activate(src, config, rj, rd) ELSE src
    IN IF a.isActive /\ time >= a.currentEventEndTime
       THEN NoiseSource_deactivate(a) ELSE a

\* NoiseSourceManager.createNoiseSource(config), called by createNoiseSources
\* at once for a config without startDelay (the source is in noiseSources
\* from the start of the round) or by its delayed call: the constructor
\* schedules the first activation
NS_Create(id, r) ==
    /\ source.id = "none"
    /\ IF id \in pendingSources
       THEN /\ pendingSources' = pendingSources \ {id}
            /\ noiseSources' = Append(noiseSources, id)
       ELSE /\ \E i \in DOMAIN noiseSources : noiseSources[i] = id
            /\ UNCHANGED << pendingSources, noiseSources >>
    /\ source' = NoiseSource_scheduleNextActivation(
                     [source EXCEPT !.id = id], SourceConfig(id), r)
    /\ UNCHANGED << activeSources, bus, managerLevel, levelCall, activeScene,
                    managerCall, sinceSpawn, rawInput, cancelTrace >>
    /\ UNCHANGED << sceneVars, inputVars, noiseVars, tvVars, powerUpVars, frames, ticks,
                    trackVars, collectVars, currentScore, levelVars,
                    meterEvent, loadError, listeners, rounds, roundStart >>

\* the clock advances by dt and NoiseSourceManager.update calls the source's
\* update, as GameScene.update does while Playing; a NOISE_SOURCE_START
\* reaches GameScene.onNoiseSourceStart
NS_Update(dt, rj, rd) ==
    /\ source.id # "none"
    /\ gameState = GameState.PLAYING
    /\ source.now + dt <= MaxClock
    /\ LET time == source.now + dt
           src == NoiseSource_update([source EXCEPT !.now = time],
                                     SourceConfig(source.id), time, rj, rd)
           s == IF src.starts > source.starts
                THEN emitNoiseSourceStart(Sim, SourceConfig(source.id).intensity, listeners)
                ELSE Sim
       IN /\ source' = src
          /\ activeSources' = IF src.isActive THEN activeSources \cup {source.id}
                              ELSE activeSources \ {source.id}
          /\ SetSim(s)
    /\ UNCHANGED << noiseSources, pendingSources, bus, managerLevel, levelCall,
                    activeScene, managerCall, sinceSpawn, rawInput, cancelTrace >>
    /\ UNCHANGED << lvl, gameTimer, inputVars, tvVars, powerUpVars, frames, ticks,
                    trackVars, collectVars, currentScore,
                    meterEvent, loadError, listeners, rounds, roundStart >>

\* NoiseSource.forceActivate(), through NoiseSourceManager.forceActivateSource
NS_ForceActivate ==
    /\ source.id # "none"
    /\ source' = IF ~source.isActive
                 THEN [source EXCEPT !.nextActivationTime = source.now]
                 ELSE source
    /\ source' # source
    /\ UNCHANGED << sourceVars, bus, managerLevel, levelCall, activeScene,
                    managerCall, sinceSpawn, rawInput, cancelTrace >>
    /\ UNCHANGED << sceneVars, inputVars, noiseVars, tvVars, powerUpVars, frames, ticks,
                    trackVars, collectVars, currentScore, levelVars,
                    meterEvent, loadError, listeners, rounds, roundStart >>

\* a round at its start on one of the levels with ambient sources
InitSource ==
    /\ lvl \in SourceLevels
    /\ storage = OkStorage(1..lvl, ProgressUpTo(lvl, 800))
    /\ unlockedLevels = NewLevelManager(storage).unlockedLevels
    /\ levelProgress = NewLevelManager(storage).levelProgress
    /\ RoundInitAt({ << getLevelConfig(lvl).duration, 0 >> })

NextSource ==
    \/ \E id \in SourceIds(lvl) : \E r \in RandomDraws : NS_Create(id, r)
    \/ \E dt \in ClockDeltas : \E rj, rd \in RandomDraws : NS_Update(dt, rj, rd)
    \/ NS_ForceActivate

SpecSource == InitSource /\ [][NextSource]_vars

\* ---------------------------------------------------------------------------
\* Level selection and progress: the LevelManager across the rounds of a
\* session that starts with the default progress.  Rounds run their whole
\* countdown; the game scene can be left for the level select scene, where
\* a level is started or the progress is reset.
\* ---------------------------------------------------------------------------
MaxLevelCalls == 2

\* the level ids setCurrentLevel is called with: those of the six levels and
\* two that have no configuration
LevelIds == 0..7

\* the level buttons of LevelSelectScene
LevelButtons == 1..6

\* setCurrentLevel that skips the isLevelUnlocked test
setCurrentLevel_unchecked(unlocked, current, levelId) ==
    [currentLevel |-> levelId, returned |-> TRUE, emitted |-> TRUE]

\* LevelManager.setCurrentLevel(levelId): the field after the call, the value
\* returned, and whether LEVEL_CHANGED was emitted
setCurrentLevel(unlocked, current, levelId) ==
    IF levelId \in unlocked
    THEN [currentLevel |-> levelId, returned |-> TRUE, emitted |-> TRUE]
    ELSE [currentLevel |-> current, returned |-> FALSE, emitted |-> FALSE]

\* resetProgress that leaves no level unlocked
resetProgress_empties(st) ==
    [unlockedLevels |-> {}, levelProgress |-> << >>, currentLevel |-> 1,
     storage |-> IF st.access = "ok" THEN [st EXCEPT !.item = NoItem] ELSE st]

\* LevelManager.resetProgress: the fields and the storage after the call
\* (removeItem is skipped when Storage is undefined, its exception is caught)
resetProgress(st) ==
    [unlockedLevels |-> {1}, levelProgress |-> << >>, currentLevel |-> 1,
     storage |-> IF st.access = "ok" THEN [st EXCEPT !.item = NoItem] ELSE st]

\* GameScene.init: `getCurrentLevelConfig() || getLevelConfig(1)`
GameScene_init(current) ==
    IF current \in DOMAIN levelConfigs THEN current ELSE 1

\* scene.start(SCENES.GAME) or scene.restart() with LevelManager.currentLevel
\* = current: GameScene.init and create (see Restart for the listeners)
EnterGame(current) ==
    /\ StartRound(GameScene_init(current))
    /\ listeners' = listeners + 1
    /\ roundStart' = [unlockedLevels |-> unlockedLevels, levelProgress |-> levelProgress]
    /\ activeScene' = "GameScene"
    /\ UNCHANGED << levelVars, loadError, meterEvent, rounds, managerCall, sinceSpawn,
                    rawInput, cancelTrace, source, bus >>

LevelCalled(op, levelId, r) ==
    levelCall' = [n |-> levelCall.n + 1, op |-> op, levelId |-> levelId,
                  returned |-> r.returned, emitted |-> r.emitted]

NotCalled == [returned |-> FALSE, emitted |-> FALSE]

\* the Replay and Try Again buttons of the end modal: scene.restart()
Replay ==
    /\ activeScene = "GameScene"
    /\ gameState \in {GameState.VICTORY, GameState.GAME_OVER}
    /\ levelCall.n < MaxLevelCalls
    /\ LevelCalled("restart", managerLevel, NotCalled)
    /\ EnterGame(managerLevel)
    /\ UNCHANGED managerLevel

\* the Next Level button, created by showEndGameModal after a victory when
\* the next level has a configuration and is unlocked
NextLevel ==
    /\ activeScene = "GameScene"
    /\ gameState = GameState.VICTORY
    /\ lvl + 1 \in DOMAIN levelConfigs
    /\ lvl + 1 \in unlockedLevels
    /\ levelCall.n < MaxLevelCalls
    /\ LET r == setCurrentLevel(unlockedLevels, managerLevel, lvl + 1)
       IN /\ managerLevel' = r.currentLevel
          /\ LevelCalled("next", lvl + 1, r)
          /\ EnterGame(r.currentLevel)

\* the back button of the game scene and the Level Select buttons of the end
\* modal: scene.start('LevelSelectScene') stops the game scene
LeaveGame ==
    /\ activeScene = "GameScene"
    /\ activeScene' = "LevelSelectScene"
    /\ UNCHANGED << managerLevel, levelCall, source, bus, managerCall, sinceSpawn,
                    rawInput, cancelTrace >>
    /\ UNCHANGED << sceneVars, inputVars, noiseVars, tvVars, powerUpVars, sourceVars,
                    frames, ticks, trackVars, collectVars, currentScore, levelVars,
                    meterEvent, loadError, listeners, rounds, roundStart >>

\* LevelSelectScene.startSelectedLevel with selectedLevelId = id
StartSelectedLevel(id) ==
    /\ activeScene = "LevelSelectScene"
    /\ levelCall.n < MaxLevelCalls
    /\ IF id \notin unlockedLevels
       THEN /\ LevelCalled("select", id, NotCalled)
            /\ UNCHANGED << managerLevel, activeScene, source, bus, managerCall,
                            sinceSpawn, rawInput, cancelTrace >>
            /\ UNCHANGED << sceneVars, inputVars, noiseVars, tvVars, powerUpVars,
                            sourceVars, frames, ticks, trackVars, collectVars,
                            currentScore, levelVars, meterEvent, loadError, listeners,
                            rounds, roundStart >>
       ELSE LET r == setCurrentLevel(unlockedLevels, managerLevel, id)
            IN /\ managerLevel' = r.currentLevel
               /\ LevelCalled("select", id, r)
               /\ EnterGame(r.currentLevel)

\* back to the menu and its Play button: MenuScene starts the game scene
StartGame ==
    /\ activeScene = "LevelSelectScene"
    /\ levelCall.n < MaxLevelCalls
    /\ LevelCalled("play", managerLevel, NotCalled)
    /\ EnterGame(managerLevel)
    /\ UNCHANGED managerLevel

\* the confirm button of LevelSelectScene.showResetConfirmation
ResetProgress ==
    /\ activeScene = "LevelSelectScene"
    /\ levelCall.n < MaxLevelCalls
    /\ LET r == resetProgress(storage)
       IN /\ unlockedLevels' = r.unlockedLevels
          /\ levelProgress' = r.levelProgress
          /\ managerLevel' = r.currentLevel
          /\ storage' = r.storage
    /\ LevelCalled("reset", 0, NotCalled)
    /\ UNCHANGED << activeScene, source, bus, managerCall, sinceSpawn, rawInput,
                    cancelTrace >>
    /\ UNCHANGED << sceneVars, inputVars, noiseVars, tvVars, powerUpVars, sourceVars,
                    frames, ticks, trackVars, collectVars, currentScore,
                    meterEvent, loadError, listeners, rounds, roundStart >>

\* LevelManager.setCurrentLevel(id) called at any moment with any id
LM_SetCurrentLevel(id) ==
    /\ levelCall.n < MaxLevelCalls
    /\ LET r == setCurrentLevel(unlockedLevels, managerLevel, id)
       IN /\ managerLevel' = r.currentLevel
          /\ LevelCalled("setCurrentLevel", id, r)
    /\ UNCHANGED << activeScene, source, bus, managerCall, sinceSpawn, rawInput,
                    cancelTrace >>
    /\ UNCHANGED << sceneVars, inputVars, noiseVars, tvVars, powerUpVars, sourceVars,
                    frames, ticks, trackVars, collectVars, currentScore, levelVars,
                    meterEvent, loadError, listeners, rounds, roundStart >>

\* the first page load of a player: nothing stored (or no storage), level 1
InitProgress ==
    /\ storage \in { [access |-> "ok", item |-> NoItem],
                     [access |-> "undefined", item |-> NoItem] }
    /\ unlockedLevels = NewLevelManager(storage).unlockedLevels
    /\ levelProgress = NewLevelManager(storage).levelProgress
    /\ lvl = 1
    /\ RoundInit

\* no round is under way: the level select scene is running, the round is
\* over, or it has just started
BetweenRounds ==
    \/ activeScene = "LevelSelectScene"
    \/ gameState \in {GameState.VICTORY, GameState.GAME_OVER}
    \/ gameTimer = currentLevel.duration

\* the last NearEndTicks intervals of a round's countdown
NearEnd == gameTimer <= NearEndTicks * TIMER_UPDATE_INTERVAL

\* The callbacks of the game scene run while it is the running scene.  The
\* exploration lets a round that is under way run to its end (the scene is
\* left and the manager is called between rounds) and looks at the TV and at
\* the frames near the end of the countdown.
NextProgress ==
    \/ activeScene = "GameScene" /\ CountdownTick
    \/ /\ activeScene = "GameScene" /\ NearEnd
       /\ \/ \E delta \in Deltas :
               \E due \in SUBSET {noiseSources[i] : i \in DOMAIN noiseSources} :
                  Update(delta, due)
          \/ TurnOn
          \/ TurnOnComplete
    \/ Replay
    \/ NextLevel
    \/ BetweenRounds /\ LeaveGame
    \/ \E id \in LevelButtons : StartSelectedLevel(id)
    \/ StartGame
    \/ ResetProgress
    \/ \E id \in LevelIds : BetweenRounds /\ LM_SetCurrentLevel(id)

SpecProgress == InitProgress /\ [][NextProgress]_vars

\* ---------------------------------------------------------------------------
\* The EventBus with on, off and emit called in any order.  A callback is
\* named by what it does when it is called.
\* ---------------------------------------------------------------------------
MaxBusCalls == 4
BusEvents == {"e1", "e2"}

\* "plain" and "other" return; "thrower" throws; "remover" calls
\* off(event, "other") and "adder" calls on(event, "plain") on the bus and
\* the event they are called for
Callbacks == {"plain", "other", "thrower", "remover", "adder"}

\* EventBus.on(event, callback): the events map after the call
EventBus_on(events, event, callback) ==
    [e \in DOMAIN events \cup {event} |->
        IF e = event
        THEN (IF event \in DOMAIN events THEN events[event] ELSE << >>) \o << callback >>
        ELSE events[e]]

\* callbacks.splice(index, 1)
Splice(callbacks, index) ==
    [i \in 1..(Len(callbacks) - 1) |->
        IF i < index THEN callbacks[i] ELSE callbacks[i + 1]]

\* EventBus.off(event, callback): the first occurrence of the callback is
\* removed, and the event's entry with it when the array is empty then
EventBus_off(events, event, callback) ==
    IF event \notin DOMAIN events THEN events
    ELSE LET callbacks == events[event]
             found == {i \in DOMAIN callbacks : callbacks[i] = callback}
             after == IF found = {} THEN callbacks
                      ELSE Splice(callbacks, CHOOSE i \in found : \A j \in found : i <= j)
         IN IF Len(after) = 0
            THEN [e \in DOMAIN events \ {event} |-> events[e]]
            ELSE [events EXCEPT ![event] = after]

\* what running a callback does to the events map
Callback_run(events, event, callback) ==
    CASE callback = "remover" -> EventBus_off(events, event, "other")
      [] callback = "adder" -> EventBus_on(events, event, "plain")
      [] OTHER -> events

\* emit without the try/catch around the callback: the first exception ends
\* the forEach and leaves emit
RECURSIVE EventBus_emit_nocatch(_, _, _, _)
EventBus_emit_nocatch(b, event, callbacksCopy, i) ==
    IF i > Len(callbacksCopy) THEN b
    ELSE LET callback == callbacksCopy[i]
             b1 == [b EXCEPT !.delivered = Append(@, callback),
                             !.events = Callback_run(@, event, callback)]
         IN IF callback = "thrower"
            THEN [b1 EXCEPT !.escaped = TRUE]
            ELSE EventBus_emit_nocatch(b1, event, callbacksCopy, i + 1)

\* EventBus.emit, the forEach over callbacksCopy from index i on: each
\* callback runs inside try/catch, the catch logs and the loop goes on
RECURSIVE EventBus_emit(_, _, _, _)
EventBus_emit(b, event, callbacksCopy, i) ==
    IF i > Len(callbacksCopy) THEN b
    ELSE LET callback == callbacksCopy[i]
             b1 == [b EXCEPT !.delivered = Append(@, callback),
                             !.events = Callback_run(@, event, callback)]
         IN EventBus_emit(b1, event, callbacksCopy, i + 1)

\* the variables an EventBus call leaves alone
busRest == << source, managerLevel, levelCall, activeScene, managerCall, sinceSpawn,
              rawInput, cancelTrace, sceneVars, inputVars, noiseVars, tvVars,
              powerUpVars, sourceVars, frames, ticks, trackVars, collectVars,
              currentScore, levelVars, meterEvent, loadError, listeners, rounds,
              roundStart >>

BusCalled(b, op, event) ==
    [b EXCEPT !.calls = @ + 1, !.op = op, !.event = event]

\* eventBus.on(event, callback)
EB_On(event, callback) ==
    /\ bus.calls < MaxBusCalls
    /\ bus' = BusCalled([bus EXCEPT !.events = EventBus_on(@, event, callback)],
                        "on", event)
    /\ UNCHANGED busRest

\* eventBus.off(event, callback)
EB_Off(event, callback) ==
    /\ bus.calls < MaxBusCalls
    /\ bus' = BusCalled([bus EXCEPT !.events = EventBus_off(@, event, callback)],
                        "off", event)
    /\ UNCHANGED busRest

\* eventBus.emit(event): `const callbacks = this.events.get(event); if
\* (callbacks) { const callbacksCopy = [...callbacks]; ... }`
EB_Emit(event) ==
    /\ bus.calls < MaxBusCalls
    /\ LET b == [bus EXCEPT !.delivered = << >>, !.escaped = FALSE]
       IN bus' = BusCalled(IF event \in DOMAIN bus.events
                           THEN EventBus_emit(b, event, bus.events[event], 1)
                           ELSE b,
                           "emit", event)
    /\ UNCHANGED busRest

NextBus ==
    \/ \E event \in BusEvents : \E callback \in Callbacks : EB_On(event, callback)
    \/ \E event \in BusEvents : \E callback \in Callbacks : EB_Off(event, callback)
    \/ \E event \in BusEvents : EB_Emit(event)

\* the bus of a round that has just started
InitBus == Init /\ gameTimer = currentLevel.duration

SpecBus == InitBus /\ [][NextBus]_vars

\* ===========================================================================
\* Properties
\* ===========================================================================
\* C1: in every reachable state of a round the wake meter's level is within
\* 0..100 (WAKE_METER_MAX), whatever frames, events, inputs, power-ups and
\* pauses led to it.
C1_LevelWithinBounds ==
    /\ 0 <= meterLevel
    /\ meterLevel <= 100 * UNIT

\* a frame has pushed the level against the upper bound
C1_Witness ==
    /\ frames > 0
    /\ meterLevel = 100 * UNIT

\* C2: a step that brings the meter to 100 while the round is Playing with
\* the countdown above 0 ends in GameOver, and a round that is GameOver stays
\* GameOver (it never becomes Victory).
C2_FullMeterIsGameOver ==
    [][ /\ ( /\ gameState = GameState.PLAYING
             /\ gameTimer > 0
             /\ meterLevel < 100 * UNIT
             /\ meterLevel' >= 100 * UNIT )
           => gameState' = GameState.GAME_OVER
        /\ gameState = GameState.GAME_OVER => gameState' = GameState.GAME_OVER ]_vars

\* a frame filled the meter before the countdown ran out
C2_Witness ==
    /\ gameState = GameState.GAME_OVER
    /\ meterLevel = 100 * UNIT
    /\ gameTimer > 0
    /\ frames > 0

\* C3: the tick that brings the countdown to 0 while the round is Playing
\* with the meter below 100 ends in Victory, and the round is in Victory only
\* with the countdown at 0.
C3_VictoryAtZero ==
    [][ /\ ( /\ gameState = GameState.PLAYING
             /\ gameTimer > 0
             /\ gameTimer' <= 0
             /\ meterLevel < 100 * UNIT )
           => gameState' = GameState.VICTORY
        /\ gameState' = GameState.VICTORY => gameTimer' <= 0 ]_vars

\* the countdown ran out with the meter at 99
C3_Witness ==
    /\ gameState = GameState.VICTORY
    /\ meterLevel = 99 * UNIT
    /\ gameTimer = 0
    /\ ticks > 0

\* C4: the round state changes only from Playing to Paused, Victory or
\* GameOver and from Paused to Playing; Victory and GameOver are never left.
C4_StateTransitions ==
    [][ gameState' # gameState =>
          << gameState, gameState' >> \in
             { << GameState.PLAYING, GameState.PAUSED >>,
               << GameState.PAUSED, GameState.PLAYING >>,
               << GameState.PLAYING, GameState.VICTORY >>,
               << GameState.PLAYING, GameState.GAME_OVER >> } ]_vars

\* a round without ambient sources is GameOver, which takes a frame with the
\* TV on, and the TV has completed its turn-off since
C4_Witness ==
    /\ gameState = GameState.GAME_OVER
    /\ currentLevel.noiseSources = << >>
    /\ wakeUps = 1
    /\ tvState = TVState.OFF
    /\ ~tvIsOn

\* C5: BEAR_WAKE_UP has been emitted once when the bear's noise is at 100%
\* and not at all when it is below.  wakeUps never decreases, so with this
\* invariant a round whose noise ever stood at 100% has emitted it exactly
\* once and any other round never.
C5_WakeUpOnce ==
    wakeUps = IF getNoisePercentage(bearNoise) >= 100 * UNIT THEN 1 ELSE 0

\* the bear was woken in a round that started at 99: the TV's event brought
\* the noise to 100 and the frame's own addNoise came after it
C5_Witness ==
    /\ wakeUps = 1
    /\ bearNoise = 100 * UNIT
    /\ bearState = BearState.AWAKE
    /\ frames > 0

\* C6: the bear's state is the tier of the wake meter's percentage:
\* SLEEPING below 50, DROWSY from 50 to below 100, AWAKE at 100.
C6_TierOfMeter ==
    bearState = IF getPercentage(meterLevel) < 50 * UNIT THEN BearState.SLEEPING
                ELSE IF getPercentage(meterLevel) < 100 * UNIT THEN BearState.DROWSY
                ELSE BearState.AWAKE

\* the meter fell below 50 after the bear had been drowsy, and the bear
\* sleeps again
C6_Witness ==
    /\ bearState = BearState.SLEEPING
    /\ ~perfectSleep
    /\ meterLevel < 50 * UNIT
    /\ frames > 0

\* C7: from level 0, with suppression off, no power-up, no ambient source and
\* level multipliers 1.0, frames with the TV in phase ON whose deltas sum to
\* 1000 ms leave the meter at 15.
C7_RiseBy15PerSecond ==
    riseMs = 1000 => meterLevel = 15 * UNIT

\* C8: a frame run with temporary immunity active, the TV in phase ON and
\* suppression off leaves the meter level and the bear's noise unchanged.
C8_ImmunityFreezesMeter ==
    [][ ( /\ frames' = frames + 1
          /\ hasTemporaryImmunity(activePowerUps)
          /\ hasTemporaryImmunity(activePowerUps')
          /\ tvIsOn /\ tvState = TVState.ON
          /\ ~isNoiseCancelActive )
        => UNCHANGED << meterLevel, bearNoise >> ]_vars

\* C9: while suppression is active no step raises the meter level, whatever
\* the TV phase and the active ambient sources.
C9_NoRiseWhileSuppressed ==
    [][ isNoiseCancelActive => meterLevel' <= meterLevel ]_vars

\* a frame has lowered the meter from 50 under suppression with the TV in
\* phase ON and an ambient source active
C9_Witness ==
    /\ isNoiseCancelActive
    /\ tvIsOn /\ tvState = TVState.ON
    /\ activeSources # {}
    /\ ~perfectSleep
    /\ 0 < meterLevel /\ meterLevel < 50 * UNIT

\* C10: frames run with suppression active, no suppression boost and level
\* decrease multiplier 1.0 lower the meter by 8 x (summed deltas) / 1000,
\* stopping at 0; from 50, 2000 ms of them leave 34.
C10_FallBy8PerSecond ==
    /\ fallMs >= 0 =>
          meterLevel = Max(fallBase - 8 * fallMs * (UNIT \div 1000), 0)
    /\ (fallMs = 2000 /\ fallBase = 50 * UNIT) => meterLevel = 34 * UNIT

\* 2000 ms of suppressed frames from 50, with the TV in phase ON
C10_Witness ==
    /\ fallMs = 2000
    /\ fallBase = 50 * UNIT
    /\ tvIsOn /\ tvState = TVState.ON

\* C11: a call of activatePowerUp for a type that is already active returns
\* false, emits no POWERUP_ACTIVATED and leaves the active power-ups, with
\* their remaining durations, as they were.  (The active power-ups are a Map
\* keyed by type: one instance per type at most.)
C11_DuplicateActivationRejected ==
    [][ ( /\ activation' # activation
          /\ activation'.type \in DOMAIN activePowerUps )
        => /\ ~activation'.returned
           /\ ~activation'.emitted
           /\ activePowerUps' = activePowerUps ]_vars

\* a power-up was clicked again while its first activation was running, a
\* frame after it
C11_Witness ==
    /\ activation.type \in DOMAIN activePowerUps
    /\ ~activation.returned
    /\ activePowerUps[activation.type] < getPowerUpConfig(activation.type).duration

\* C12: whenever the Television's phase is not ON its noise level is 0 and
\* isOn() is false.
C12_SilentOutsideOn ==
    tvState # TVState.ON => (tvNoiseLevel = 0 /\ ~tvIsOn)

\* C13: the Television's phase changes only from OFF to TURNING_ON, from
\* TURNING_ON to ON, from ON to TURNING_OFF and from TURNING_OFF to OFF,
\* whatever the order of timers, tween completions and calls of turnOn and
\* turnOff.
C13_PhaseCycle ==
    [][ tvState' # tvState =>
          << tvState, tvState' >> \in
             { << TVState.OFF, TVState.TURNING_ON >>,
               << TVState.TURNING_ON, TVState.ON >>,
               << TVState.ON, TVState.TURNING_OFF >>,
               << TVState.TURNING_OFF, TVState.OFF >> } ]_vars

\* the TV is OFF again after a frame that ran with the TV in phase ON
C13_Witness ==
    /\ tvState = TVState.OFF
    /\ riseMs > 0

\* C14: NoiseMeter.addNoise and reduceNoise emit METER_UPDATE exactly when the
\* level changed, carrying the new level, with isIncreasing true for addNoise
\* and false for reduceNoise; addNoise at the full meter leaves the level at the
\* maximum and emits nothing, reduceNoise at level 0 emits nothing.
C14_UpdateIffChanged ==
    [][ meterEvent'.n # meterEvent.n =>
          /\ meterEvent'.emitted <=> (meterLevel' # meterLevel)
          /\ meterEvent'.emitted =>
               /\ meterEvent'.level = meterLevel'
               /\ meterEvent'.isIncreasing <=> (meterEvent'.op = "add")
          /\ (meterEvent'.op = "add" /\ meterLevel = maxLevel) =>
               (meterLevel' = maxLevel /\ ~meterEvent'.emitted)
          /\ (meterEvent'.op = "reduce" /\ meterLevel = 0) => ~meterEvent'.emitted ]_vars

\* addNoise with a positive amount at the full meter emitted nothing
C14_Witness ==
    /\ meterEvent.op = "add"
    /\ meterEvent.old = maxLevel
    /\ meterEvent.amount > 0
    /\ ~meterEvent.emitted
    /\ meterLevel = maxLevel

C16_LoadDefaults ==
    [][ ( /\ \E level \in SessionLevels : Reload(level)
          /\ \/ storage.access # "ok"
             \/ storage.item.kind \in {"null", "corrupt"} )
        => /\ unlockedLevels' = {1}
           /\ ~loadError' ]_vars

\* a page load that found a text JSON.parse rejects
C16_Witness ==
    /\ rounds > 0 /\ listeners = 1
    /\ storage.access = "ok" /\ storage.item.kind = "corrupt"
    /\ unlockedLevels = {1}
    /\ ~loadError

\* C17: a round started again from any state begins Playing with the countdown
\* at the level's duration, the meter at 0, the bear SLEEPING with noise 0, the
\* TV OFF, suppression inactive, no active power-up, no cooldown, and with the
\* handlers of the new round only on the eventBus; the unlocked levels and the
\* progress are kept.
C17_RestartIsFresh ==
    [][ Restart =>
          /\ gameState' = GameState.PLAYING
          /\ gameTimer' = currentLevel.duration
          /\ meterLevel' = 0
          /\ bearState' = BearState.SLEEPING /\ bearNoise' = 0
          /\ tvState' = TVState.OFF
          /\ ~isNoiseCancelActive'
          /\ DOMAIN activePowerUps' = {} /\ DOMAIN powerUpCooldowns' = {}
          /\ unlockedLevels' = unlockedLevels /\ levelProgress' = levelProgress
          /\ listeners' = 1 ]_vars

\* C18: while the round is Paused no timer tick, frame or input changes the
\* countdown, the meter level, the bear's noise or tier, the remaining duration
\* of an active power-up or a cooldown; the step that resumes the round leaves
\* them as they are too.
C18_PausedIsFrozen ==
    [][ gameState = GameState.PAUSED =>
          /\ UNCHANGED << gameTimer, meterLevel, bearNoise, bearState >>
          /\ \A type \in DOMAIN activePowerUps :
                /\ type \in DOMAIN activePowerUps'
                /\ activePowerUps'[type] = activePowerUps[type]
          /\ \A type \in DOMAIN powerUpCooldowns :
                /\ type \in DOMAIN powerUpCooldowns'
                /\ powerUpCooldowns'[type] = powerUpCooldowns[type] ]_vars

\* a round paused with the TV on, the meter up, a power-up active and a
\* cooldown running
C18_Witness ==
    /\ gameState = GameState.PAUSED
    /\ tvIsOn
    /\ meterLevel > 0
    /\ DOMAIN activePowerUps # {}
    /\ DOMAIN powerUpCooldowns # {}

\* C19: the step into Victory on level n makes the level's record completed,
\* with one attempt more and bestScore the larger of the previous best and the
\* score, leaves the other records alone, and unlocks level n + 1 when it has a
\* configuration; after the last level nothing is unlocked.
C19_VictoryRecorded ==
    [][ (gameState # GameState.VICTORY /\ gameState' = GameState.VICTORY) =>
          LET has == lvl \in DOMAIN levelProgress
          IN /\ DOMAIN levelProgress' = DOMAIN levelProgress \cup {lvl}
             /\ levelProgress'[lvl].completed
             /\ levelProgress'[lvl].attempts =
                   (IF has THEN levelProgress[lvl].attempts ELSE 0) + 1
             /\ levelProgress'[lvl].bestScore =
                   Max(IF has THEN levelProgress[lvl].bestScore ELSE 0, currentScore)
             /\ \A l \in DOMAIN levelProgress \ {lvl} : levelProgress'[l] = levelProgress[l]
             /\ unlockedLevels' =
                   unlockedLevels \cup (IF lvl < 6 THEN {lvl + 1} ELSE {}) ]_vars

\* the last level won again with a score below the best one
C19_Witness ==
    /\ gameState = GameState.VICTORY
    /\ lvl = 6
    /\ levelProgress[lvl].attempts = 2
    /\ levelProgress[lvl].bestScore > currentScore
    /\ unlockedLevels = 1..6

\* C20: in a round that ended in GameOver the unlocked levels and every
\* level's progress record are what they were when the round started.
C20_GameOverKeepsProgress ==
    gameState = GameState.GAME_OVER =>
        /\ unlockedLevels = roundStart.unlockedLevels
        /\ levelProgress = roundStart.levelProgress

\* a lost round of a level that was not won before
C20_Witness ==
    /\ gameState = GameState.GAME_OVER
    /\ lvl \notin DOMAIN levelProgress
    /\ lvl + 1 \notin unlockedLevels


\* C21: a call of activatePowerUp with a type that has no configuration fails
\* with the 'not found' error of getPowerUpConfig, returns nothing, emits
\* nothing and leaves the active map as it was; no entry of the active map
\* is ever keyed by a type without configuration
C21_UnknownTypeNotFound ==
    [][ /\ DOMAIN activePowerUps' \subseteq DOMAIN powerUpConfigs
        /\ (managerCall'.n # managerCall.n /\ managerCall'.op = "activate"
              /\ managerCall'.type \notin DOMAIN powerUpConfigs)
             => /\ managerCall'.error = "not found"
                /\ ~managerCall'.returned /\ ~managerCall'.emitted
                /\ activePowerUps' = activePowerUps ]_vars

\* an unknown type was passed while a power-up was active
C21_Witness ==
    /\ managerCall.op = "activate" /\ managerCall.type = UnknownType
    /\ managerCall.error = "not found"
    /\ activePowerUps # << >>


\* the round is over
RoundOver == gameState \in {GameState.VICTORY, GameState.GAME_OVER}

FirstDelayWithin(minDelay, maxDelay) ==
    tvSchedule.draws = 1 => /\ minDelay <= tvSchedule.minDelay
                            /\ tvSchedule.maxDelay <= maxDelay

\* C23: the TV's first activation delay of a round lies within the level's
\* [tvConfig.initialDelayMin, tvConfig.initialDelayMax]
C23_FirstDelayWithinLevelRange ==
    FirstDelayWithin(currentLevel.tvConfig.initialDelayMin,
                     currentLevel.tvConfig.initialDelayMax)

\* C24: every step in which the TV returns to OFF schedules the next
\* activation with a delay from the level's [subsequentDelayMin,
\* subsequentDelayMax]; a turn-on timer is added in no other step, and at
\* most one is pending
C24_SubsequentDelayFromOff ==
    [][ /\ tvSchedule'.pending <= 1
        /\ (tvState = TVState.TURNING_OFF /\ tvState' = TVState.OFF)
             => tvSchedule' = [draws |-> 2,
                               minDelay |-> currentLevel.tvConfig.subsequentDelayMin,
                               maxDelay |-> currentLevel.tvConfig.subsequentDelayMax,
                               pending |-> 1]
        /\ (tvSchedule'.pending > tvSchedule.pending \/ tvSchedule'.draws > tvSchedule.draws)
             => (tvState = TVState.TURNING_OFF /\ tvState' = TVState.OFF) ]_vars

\* on level 3, whose two ranges differ, the TV of a round that just started
\* has been on and off once and its second activation is pending
C24_Witness ==
    /\ lvl = 3 /\ gameTimer = currentLevel.duration
    /\ tvState = TVState.OFF /\ tvSchedule.draws = 2 /\ tvSchedule.pending = 1


\* a raw hold signal is held: the space key or the pointer on the mute button
\* (a touch is a pointer)
RawHeld == rawInput.key \/ rawInput.pointer

\* C25: whenever the round is Playing, suppression is active if and only if
\* at least one raw hold signal is held down
C25_ActiveIffHeld ==
    gameState = GameState.PLAYING => (isNoiseCancelActive <=> RawHeld)

\* C26: NOISE_CANCEL_START and NOISE_CANCEL_STOP alternate, beginning with
\* START, each with its call of activateNoiseCanceling resp.
\* deactivateNoiseCanceling; a handler that runs while the suppression stays
\* active (a second input pressed, one of two released) emits and calls
\* nothing
C26_StartStopAlternate ==
    [][ /\ cancelTrace'.emitted = "NOISE_CANCEL_START"
             => /\ cancelTrace'.before \in {"none", "NOISE_CANCEL_STOP"}
                /\ cancelTrace'.called = "activateNoiseCanceling"
        /\ cancelTrace'.emitted = "NOISE_CANCEL_STOP"
             => /\ cancelTrace'.before = "NOISE_CANCEL_START"
                /\ cancelTrace'.called = "deactivateNoiseCanceling"
        /\ cancelTrace'.emitted = "none" => cancelTrace'.called = "none"
        /\ (rawInput' # rawInput /\ isNoiseCancelActive /\ isNoiseCancelActive')
             => cancelTrace'.emitted = "none"
        /\ (cancelTrace' # cancelTrace /\ cancelTrace'.emitted # "none")
             => isNoiseCancelActive' # isNoiseCancelActive
      ]_vars

\* both inputs are held, the second one was pressed after the START of the
\* first and emitted nothing
C26_Witness ==
    /\ spaceDown /\ mouseDown /\ isNoiseCancelActive
    /\ cancelTrace = [emitted |-> "none", called |-> "none", before |-> "NOISE_CANCEL_START"]


\* the last call of a PowerUpManager method was `op`, made in this step
ManagerCalled(op) == managerCall'.n # managerCall.n /\ managerCall'.op = op

\* C27: PowerUpManager.update(delta) lowers the remaining duration of every
\* active power-up by delta; one that reaches 0 or less is removed in that
\* call and POWERUP_EXPIRED is emitted for it, for no other; every power-up
\* in the active map has 0 < remaining <= its configured duration
C27_UpdateExpires ==
    [][ /\ \A t \in DOMAIN activePowerUps' :
              /\ 0 < activePowerUps'[t]
              /\ activePowerUps'[t] <= powerUpConfigs[t].duration
        /\ ManagerCalled("update") =>
              /\ managerCall'.delta > 0
              /\ DOMAIN activePowerUps' \subseteq DOMAIN activePowerUps
              /\ managerCall'.expired = DOMAIN activePowerUps \ DOMAIN activePowerUps'
              /\ \A t \in DOMAIN activePowerUps :
                    IF activePowerUps[t] - managerCall'.delta > 0
                    THEN /\ t \in DOMAIN activePowerUps'
                         /\ activePowerUps'[t] = activePowerUps[t] - managerCall'.delta
                    ELSE t \notin DOMAIN activePowerUps'
        /\ ~ManagerCalled("update") => managerCall'.expired = {} ]_vars

\* an update in which one power-up expired and another went on
C27_Witness ==
    /\ managerCall.op = "update" /\ managerCall.expired # {}
    /\ activePowerUps # << >>

\* C28: spawnRandomPowerUp spawns a type of the level's available set that
\* has no cooldown left and sets its cooldown to the configured one, at least
\* that much update time after the previous spawn of the type; activating a
\* power-up leaves the cooldowns alone
C28_SpawnRespectsCooldown ==
    [][ /\ ManagerCalled("spawn") =>
              LET type == managerCall'.type
              IN /\ type \in currentLevel.availablePowerUps
                 /\ type \notin DOMAIN powerUpCooldowns
                 /\ powerUpCooldowns'[type] = powerUpConfigs[type].cooldown
                 /\ \A t \in DOMAIN powerUpCooldowns :
                       powerUpCooldowns'[t] = powerUpCooldowns[t]
                 /\ managerCall'.gap >= 0 => managerCall'.gap >= powerUpConfigs[type].cooldown
        /\ ManagerCalled("activate") => powerUpCooldowns' = powerUpCooldowns ]_vars

\* a type was spawned for the second time
C28_Witness ==
    /\ managerCall.op = "spawn" /\ managerCall.gap >= 0

\* the noiseReduction factor (hundredths) the power-up of the type given
\* contributes: its configured one while it is active, 1.0 otherwise
ReductionFactor(type) ==
    IF type \in DOMAIN activePowerUps /\ powerUpConfigs[type].effect.noiseReduction # 0
    THEN powerUpConfigs[type].effect.noiseReduction
    ELSE 100

\* C29: getNoiseReductionMultiplier() is the product of the noiseReduction
\* factors of the active power-ups, 1.0 when none of them has one, and
\* hasTemporaryImmunity() is true iff an active power-up flags
\* temporaryImmunity
C29_AggregatesOverActive ==
    /\ getNoiseReductionMultiplier(activePowerUps) =
         ( ( (ReductionFactor(PowerUpType.ESPRESSO_SHOT)
                * ReductionFactor(PowerUpType.NOISE_HEADPHONES)
                * ReductionFactor(PowerUpType.WHITE_NOISE_MACHINE)) \div 10000 )
           * ( (ReductionFactor(PowerUpType.MEDITATION_STATE)
                * ReductionFactor(PowerUpType.SOUND_SHIELD)
                * ReductionFactor(PowerUpType.WINDOW_CONTROL)) \div 10000 ) ) \div 100
    /\ ((\A t \in DOMAIN activePowerUps : powerUpConfigs[t].effect.noiseReduction = 0)
          => getNoiseReductionMultiplier(activePowerUps) = 100)
    /\ hasTemporaryImmunity(activePowerUps) <=>
          \E t \in PowerUpTypes :
              t \in DOMAIN activePowerUps /\ powerUpConfigs[t].effect.temporaryImmunity

\* two reducing power-ups were active together, the update just made them
\* expire and the multiplier is back at 1.0
C29_Witness ==
    /\ managerCall.op = "update"
    /\ \E t1, t2 \in managerCall.expired :
          /\ t1 # t2
          /\ powerUpConfigs[t1].effect.noiseReduction # 0
          /\ powerUpConfigs[t2].effect.noiseReduction # 0
    /\ getNoiseReductionMultiplier(activePowerUps) = 100


\* C30: the score passed to completeLevel on Victory (the level had no best
\* score before, so it is the best score recorded) is the score formula on
\* the round's state at the moment of victory, the stats passed along
C30_ScoreAtVictory ==
    [][ (gameState # GameState.VICTORY /\ gameState' = GameState.VICTORY
           /\ lvl \notin DOMAIN levelProgress)
        => /\ levelProgress'[lvl].stats
                = [timeRemaining |-> gameTimer', perfectSleep |-> perfectSleep']
           /\ levelProgress'[lvl].bestScore = updateScore(gameTimer', perfectSleep') ]_vars

\* C31: the active periods of an ambient source never overlap: activate()
\* runs only while the source is inactive, every NOISE_SOURCE_START of a
\* source follows as many NOISE_SOURCE_STOP as there were starts before it,
\* and the source is active exactly between a start and its stop, also when
\* the next activation time lies before the end of the current period.
C31_ActivePeriodsDisjoint ==
    [][ /\ source'.starts > source.starts
           => /\ ~source.isActive
              /\ source.stops = source.starts
              /\ source'.starts = source.starts + 1
        /\ source'.stops \in {source.stops, source.stops + 1}
        /\ source'.starts - source'.stops = IF source'.isActive THEN 1 ELSE 0 ]_vars

\* a source was started a second time after a period during which its next
\* activation time had already passed
C31_Witness ==
    /\ source.early
    /\ source.starts >= 2
    /\ source.stops >= 1
    /\ source.isActive

\* C32: the length of every active period of an ambient source, from its
\* activation to the end time activate() sets, is within 10% of the source's
\* configured duration: 0.9 x duration <= length <= 1.1 x duration.
C32_DurationWithinTenPercent ==
    source.starts > 0
       => LET length == source.currentEventEndTime - source.activatedAt
              duration == SourceConfig(source.id).duration
          IN /\ 9 * duration <= 10 * length
             /\ 10 * length <= 11 * duration

\* the increase GameScene.update applies to the meter in a frame of delta ms
\* from the state at hand (TV noise, then ambient noise) when the active
\* power-ups are those of the map `active`
frameIncrease(active, delta) ==
    LET s1 == applyTVNoise(Sim, active, delta)
        s2 == applySourceNoise(s1, active, getTotalNoiseLevel(activeSources), delta)
    IN s2.meterLevel - meterLevel

\* C33: while an Espresso Shot is active the meter rises more slowly: in
\* every Playing state with the TV on and suppression off, the increase a
\* frame applies with Espresso Shot active is strictly smaller than the
\* increase the same frame applies with no power-up active (for every delta
\* for which the latter stays below the maximum).
C33_EspressoSlowsRise ==
    (/\ gameState = GameState.PLAYING
     /\ PowerUpType.ESPRESSO_SHOT \in DOMAIN activePowerUps
     /\ tvIsOn /\ ~isNoiseCancelActive)
       => \A delta \in Deltas :
             meterLevel + frameIncrease(<< >>, delta) < maxLevel
                => frameIncrease(activePowerUps, delta) < frameIncrease(<< >>, delta)

\* C34: between frames and handlers a round that is Playing or Paused has
\* its meter strictly below 100; the step in which the countdown expires
\* while Playing therefore ends in Victory, never in GameOver, and a round
\* enters GameOver only with the meter at 100.
C34_RunningBelowFull ==
    [][ /\ gameState' \in {GameState.PLAYING, GameState.PAUSED} => meterLevel' < maxLevel
        /\ (gameState = GameState.PLAYING /\ gameTimer > 0 /\ gameTimer' <= 0)
              => gameState' = GameState.VICTORY
        /\ (gameState # GameState.GAME_OVER /\ gameState' = GameState.GAME_OVER)
              => meterLevel' = maxLevel ]_vars

\* the countdown expired with the meter one unit below the maximum: Victory
C34_Witness ==
    /\ gameState = GameState.VICTORY
    /\ gameTimer <= 0
    /\ ticks > 0
    /\ meterLevel = 99 * UNIT

\* C36: in a round GameScene.gameOver runs at most once, also when the
\* bear's BEAR_WAKE_UP and the meter's METER_UPDATE at 100% come from the
\* same addition of noise.
C36_GameOverOnce ==
    gameOvers <= 1

\* C35: at the end of every frame and of every noise event handler the
\* bear's noise accumulator equals the wake meter's level, whatever
\* additions, reductions and clampings at 0 and at 100 came before.
C35_BearFollowsMeter ==
    /\ bearNoise = meterLevel
    /\ gameState = GameState.PLAYING
          => LET s2 == Television_update(updateStateBasedOnNoise(Sim))
             IN /\ s2.bearNoise = s2.meterLevel          \* after onTVNoiseStart
                /\ \A due \in SUBSET {noiseSources[i] : i \in DOMAIN noiseSources} :
                      LET s3 == NoiseSourceManager_update(s2, activeSources, due, 1).sim
                      IN s3.bearNoise = s3.meterLevel    \* after onNoiseSourceStart

\* a frame that added noise and a frame of suppression: the reduction was
\* clamped at 0 on both accumulators
C35_Witness ==
    /\ frames = 2
    /\ fallMs > 0 /\ fallBase > 0
    /\ bearNoise = 0 /\ meterLevel = 0

\* C37: from the default progress on, through level selections, rounds,
\* victories, game-overs and progress resets, the unlocked levels are always
\* a set {1..k} with 1 <= k <= 6, and only resetProgress ever removes a level
\* from it.
C37_UnlockedIsPrefix ==
    [][ /\ \E k \in 1..6 : unlockedLevels' = 1..k
        /\ unlockedLevels \subseteq unlockedLevels'
              \/ (levelCall'.n # levelCall.n /\ levelCall'.op = "reset") ]_vars

\* the second victory in a row: levels 1 to 3 are unlocked
C37_Witness ==
    /\ gameState = GameState.VICTORY
    /\ lvl = 2
    /\ unlockedLevels = 1..3
    /\ levelCall.op = "next"

\* C38: setCurrentLevel(id) with a level that is not unlocked returns false,
\* leaves LevelManager.currentLevel as it was and emits no LEVEL_CHANGED; the
\* level of the round the game scene runs is always unlocked and configured.
C38_LockedLevelRejected ==
    [][ /\ (levelCall'.n # levelCall.n /\ levelCall'.op = "setCurrentLevel"
              /\ levelCall'.levelId \notin unlockedLevels)
             => /\ ~levelCall'.returned /\ ~levelCall'.emitted
                /\ managerLevel' = managerLevel
        /\ activeScene' = "GameScene"
             => /\ lvl' \in unlockedLevels'
                /\ lvl' \in DOMAIN levelConfigs ]_vars

\* during the round of level 2 that followed a victory on level 1, a call with
\* level 5, configured but locked, was rejected
C38_Witness ==
    /\ levelCall.op = "setCurrentLevel"
    /\ levelCall.levelId = 5 /\ ~levelCall.returned /\ ~levelCall.emitted
    /\ activeScene = "GameScene"
    /\ gameState = GameState.PLAYING
    /\ lvl = 2 /\ managerLevel = 2
    /\ unlockedLevels = 1..2

\* the callbacks subscribed to an event, in subscription order
Subscribed(event) ==
    IF event \in DOMAIN bus.events THEN bus.events[event] ELSE << >>

\* C39: emit delivers the event to every callback that is subscribed when
\* emit starts, in subscription order, also when a callback throws or
\* changes the subscriptions: no exception leaves emit and the callbacks
\* after the one that threw still run.
C39_EmitDeliversToAll ==
    [][ (bus'.calls # bus.calls /\ bus'.op = "emit")
           => /\ bus'.delivered = Subscribed(bus'.event)
              /\ ~bus'.escaped ]_vars

\* an emit whose first callback threw and whose later callbacks still ran
C39_Witness ==
    /\ bus.op = "emit"
    /\ Len(bus.delivered) >= 2
    /\ bus.delivered[1] = "thrower"
    /\ bus.delivered[Len(bus.delivered)] # "thrower"
====
